---- MODULE Spec2Model ----
(***************************************************************************)
(* Model of hastexo/provider.py: the provider drivers (OpenStack Heat,     *)
(* Google Cloud Deployment Manager, AWS EC2/SSM) that create, query,       *)
(* suspend, resume and delete one stack, together with the cloud backend   *)
(* each driver talks to.  One stack name is modelled; a driver executes    *)
(* one operation at a time, one backend call or sleep per step, and the    *)
(* backend moves on its own between the driver's steps.                    *)
(***************************************************************************)
EXTENDS Integers, Sequences, FiniteSets, TLC

(***************************************************************************)
(* Bounds of the model.                                                    *)
(***************************************************************************)
\* Sleeps one operation may take before the model stops following it.
MaxSleeps == 3
\* EC2 instances that may carry the stack's key name at one time.
MaxInstances == 2
\* Compute servers of one Google Cloud deployment.
MaxServers == 2
\* Largest native AWS state code handed to the normalizer.
MaxAwsState == 96
\* Failures of get_parameter that one create_stack may meet while it polls.
MaxFaults == 1

(***************************************************************************)
(* Status vocabulary (hastexo.common, imported at provider.py:25-37).      *)
(***************************************************************************)
IN_PROGRESS == "IN_PROGRESS"
FAILED == "FAILED"
CREATE_COMPLETE == "CREATE_COMPLETE"
DELETE_COMPLETE == "DELETE_COMPLETE"
DELETE_IN_PROGRESS == "DELETE_IN_PROGRESS"
RESUME_COMPLETE == "RESUME_COMPLETE"
RESUME_IN_PROGRESS == "RESUME_IN_PROGRESS"
SUSPEND_COMPLETE == "SUSPEND_COMPLETE"
SUSPEND_IN_PROGRESS == "SUSPEND_IN_PROGRESS"

\* Python's "sub in s" on strings.
Contains(sub, s) ==
    \E i \in 1..(Len(s) - Len(sub) + 1) : SubSeq(s, i, i + Len(sub) - 1) = sub

\* settings.get("sleep_timeout", 10)
sleep_seconds == 10

(***************************************************************************)
(* Values an operation hands back to its caller.                           *)
(***************************************************************************)
NoResult == [kind |-> "none"]
\* return {"status": status}
ReturnStatus(st) == [kind |-> "return", status |-> st]
\* return {"status": status, "outputs": outputs}
ReturnStack(st, out) == [kind |-> "return", status |-> st, outputs |-> out]
\* raise ProviderException(msg); msg names the wrapped exception, if any
ProviderException(msg) == [kind |-> "raise", exc |-> "ProviderException", msg |-> msg]
\* an exception of another type leaving the operation
Escapes(exc) == [kind |-> "raise", exc |-> exc, msg |-> exc]

\* The empty dict {}
EmptyDict == <<>>

VARIABLES
    config,         \* the configuration Provider.init found for the name
    provider,       \* the driver Provider.init constructed
    template,       \* Provider.template
    environment,    \* Provider.environment
    capacity,       \* Provider.capacity
    capacity_arg,   \* the argument of the last set_capacity
    pc,             \* position of the operation in progress, "idle" if none
    op,             \* the operation in progress, or the last one
    began,          \* how the operation began: on an absent stack? right
                    \* after a delete_stack that returned DELETE_COMPLETE?
    wait,           \* its wait argument
    key_type,       \* its key_type argument
    status,         \* the local variable status of a poll loop
    count,          \* the local variable count of AWS create_stack
    result,         \* what the last operation returned or raised
    calls,          \* backend calls of the operation, in order
    sleeps,         \* sleeps of the operation
    slept,          \* seconds the operation has slept
    fetches,        \* status fetches of the operation
    heat_stack,     \* Heat: the stack of this name, or NoStack
    heat_pending,   \* Heat: action accepted and not yet started
    nova_keypair,   \* Nova: a key pair of this name exists
    deployment,     \* Deployment Manager: the deployment exists
    operation,      \* Deployment Manager: the deployment's last operation
    servers,        \* Compute Engine: live status of the deployment's servers
    ec2_instances,  \* EC2: instances carrying the key name, in listing order
    ssm_parameter,  \* SSM: the parameter of this name exists
    ec2_key_pair,   \* EC2: the imported key pair exists
    aws_state,      \* input of the AWS status normalizer
    thread2         \* position of a resume_stack that a second thread runs
                    \* on the same name, "idle" if none

drvVars == <<pc, op, began, wait, key_type, status, count, result, calls, sleeps, slept, fetches>>
cfgVars == <<config, provider, template, environment, capacity, capacity_arg>>
osVars == <<heat_stack, heat_pending, nova_keypair>>
gcVars == <<deployment, operation, servers>>
awsVars == <<ec2_instances, ssm_parameter, ec2_key_pair>>
vars == <<cfgVars, drvVars, osVars, gcVars, awsVars, aws_state, thread2>>

\* Python's None
None == "None"

(***************************************************************************)
(* Python values held in a stack's outputs.                                *)
(***************************************************************************)
PyStr(s) == [t |-> "str", v |-> s]
PyList(l) == [t |-> "list", v |-> l]
PyNone == [t |-> "none", v |-> None]
PyInt(n) == [t |-> "int", v |-> n]
PyBool(b) == [t |-> "bool", v |-> b]
\* A float, held as Python prints it: "2.7", "-0.5", "inf", "nan"
PyFloat(repr) == [t |-> "float", v |-> repr]
\* dict.get(key)
DictGet(d, key) == IF key \in DOMAIN d THEN d[key] ELSE PyNone
\* Python truthiness of a value
Truthy(x) ==
    CASE x.t = "none" -> FALSE
      [] x.t = "str" -> x.v # ""
      [] x.t = "bool" -> x.v
      [] x.t = "int" -> x.v # 0
      [] x.t = "float" -> x.v \notin {"0.0", "-0.0"}
      [] OTHER -> Len(x.v) > 0

(***************************************************************************)
(* Provider facade.                                                        *)
(***************************************************************************)
\* The values of config.get("type"): None for a configuration without the
\* key (or with a null), else the value.
ConfigTypes ==
    {PyNone, PyStr(""), PyBool(FALSE), PyStr("openstack"), PyStr("gcloud"),
     PyStr("aws"), PyStr("azure")}

\* Variant of Provider.init: a type that is not given selects no driver.
ProviderInit_NoDefault(type) ==
    IF type = PyStr("openstack")
    THEN "openstack"
    ELSE IF type = PyStr("gcloud") THEN "gcloud"
    ELSE IF type = PyStr("aws") THEN "aws"
    ELSE None

\* Provider.init, lines 66-72: the driver class chosen for a configured type.
ProviderInit(type) ==
    IF type = PyStr("openstack") \/ ~Truthy(type)
    THEN "openstack"
    ELSE IF type = PyStr("gcloud") THEN "gcloud"
    ELSE IF type = PyStr("aws") THEN "aws"
    ELSE None

\* A dict with entries as providers.get(name), and what get reads as its type
DictConfig(type) == [dict |-> TRUE, truthy |-> TRUE, type |-> type]

\* What providers.get(name) may be: nothing (None), a value that is no dict
\* (a string), the empty dict, or a dict with entries.
Configs ==
    {[dict |-> FALSE, truthy |-> FALSE, type |-> PyNone],
     [dict |-> FALSE, truthy |-> TRUE, type |-> PyNone],
     [dict |-> TRUE, truthy |-> FALSE, type |-> PyNone]}
    \cup {DictConfig(t) : t \in ConfigTypes}

\* Provider.init, lines 64-72: what it returns for the configuration c; the
\* driver's class, or None when it falls off the end.
Provider_init(c) ==
    IF c.truthy /\ c.dict THEN ProviderInit(c.type) ELSE None

\* The configuration the drivers' specifications start from: a dict that
\* names the type of the driver p.
ConfigOf(p) == DictConfig(PyStr(IF p = None THEN "azure" ELSE p))

\* Properties an AWS template must carry.
RequiredProps == <<"ami_id", "instance_type", "security_group_id", "subnet_id">>

\* A template or environment payload as yaml.safe_load reads it: None (never
\* set), the empty string, a document that does not parse, one that is no
\* mapping, or a mapping with the keys whose value is truthy.
NoPayload == [yaml |-> "none", keys |-> {}]
EmptyPayload == [yaml |-> "empty", keys |-> {}]
YamlError == [yaml |-> "error", keys |-> {}]
YamlScalar == [yaml |-> "scalar", keys |-> {}]
YamlMapping(ks) == [yaml |-> "mapping", keys |-> ks]
AllProps == {RequiredProps[i] : i \in DOMAIN RequiredProps}

\* The payloads a caller may hand to set_template.
TemplateChoices(p) ==
    IF p = "aws"
    THEN {EmptyPayload, YamlError, YamlScalar, YamlMapping(AllProps), YamlMapping({})}
         \cup {YamlMapping(AllProps \ {k}) : k \in AllProps}
    ELSE {EmptyPayload, YamlMapping({})}

\* The payloads a caller may hand to set_environment.
EnvironmentChoices(p) ==
    IF p = "gcloud"
    THEN {EmptyPayload, YamlError, YamlScalar, YamlMapping({}),
          YamlMapping({"properties"})}
    ELSE {EmptyPayload, YamlMapping({})}

\* No stack of the name exists in the backend: no Heat stack, no deployment,
\* no instance carrying the key name.
StackAbsent ==
    CASE provider = "openstack" -> heat_stack.stack_status = None
      [] provider = "gcloud" -> ~deployment.exists
      [] OTHER -> Len(ec2_instances) = 0

\* The entry of the call log for a call of the backend's API and its answer:
\* the call's name, followed by the error when the call failed.
Call(name, r) == IF r = "ok" THEN name ELSE name \o "!" \o r

\* An operation begins: its arguments, and nothing done yet.
Enter(o, w, k) ==
    /\ pc = "idle"
    /\ op' = o
    /\ began' = [absent |-> StackAbsent,
                 after_delete |-> /\ o = "delete_stack"
                                  /\ op = "delete_stack"
                                  /\ result = ReturnStatus(DELETE_COMPLETE)]
    /\ wait' = w
    /\ key_type' = k
    /\ count' = 0
    /\ sleeps' = 0
    /\ slept' = 0

\* The operation goes on at position p with its local status st.
Goto(p, st) ==
    /\ pc' = p
    /\ status' = st
    /\ result' = NoResult

\* The operation ends: it returns or raises r.
Finish(r) ==
    /\ pc' = "idle"
    /\ status' = None
    /\ result' = r

\* time.sleep(seconds)
Sleep(seconds) ==
    /\ sleeps < MaxSleeps
    /\ sleeps' = sleeps + 1
    /\ slept' = slept + seconds

\* A provider is configured once, before it serves stack operations.
Configuring == op \in {None, "set_template", "set_environment", "set_capacity"}

\* Provider.set_template
set_template ==
    /\ provider # None
    /\ Configuring
    /\ Enter("set_template", TRUE, "")
    /\ \E t \in TemplateChoices(provider) :
        /\ template' = IF t = EmptyPayload THEN template ELSE t
        /\ Finish(IF t = EmptyPayload
                  THEN ProviderException("No template provided")
                  ELSE ReturnStatus(None))
    /\ calls' = <<>> /\ fetches' = 0
    /\ UNCHANGED <<config, provider, environment, capacity, capacity_arg, thread2>>
    /\ UNCHANGED <<osVars, gcVars, awsVars, aws_state>>

\* Provider.set_environment
set_environment ==
    /\ provider # None
    /\ Configuring
    /\ Enter("set_environment", TRUE, "")
    /\ \E e \in EnvironmentChoices(provider) :
        /\ environment' = IF e = EmptyPayload THEN environment ELSE e
        /\ Finish(IF e = EmptyPayload
                  THEN ProviderException("No environment provided")
                  ELSE ReturnStatus(None))
    /\ calls' = <<>> /\ fetches' = 0
    /\ UNCHANGED <<config, provider, template, capacity, capacity_arg, thread2>>
    /\ UNCHANGED <<osVars, gcVars, awsVars, aws_state>>

\* str.strip() for blanks
RECURSIVE Strip(_)
Strip(str) ==
    IF Len(str) > 0 /\ SubSeq(str, 1, 1) = " "
    THEN Strip(SubSeq(str, 2, Len(str)))
    ELSE IF Len(str) > 0 /\ SubSeq(str, Len(str), Len(str)) = " "
    THEN Strip(SubSeq(str, 1, Len(str) - 1))
    ELSE str

\* The value of a decimal digit, -1 for any other character
DigitValue(ch) ==
    LET digits == "0123456789"
    IN IF \E d \in 1..10 : SubSeq(digits, d, d) = ch
       THEN (CHOOSE d \in 1..10 : SubSeq(digits, d, d) = ch) - 1
       ELSE -1

\* The number a string of digits denotes
RECURSIVE Decimal(_)
Decimal(str) ==
    IF Len(str) = 0
    THEN 0
    ELSE 10 * Decimal(SubSeq(str, 1, Len(str) - 1))
         + DigitValue(SubSeq(str, Len(str), Len(str)))

\* A value of int(), and an exception it raises
Returns(n) == [kind |-> "return", v |-> n]

\* int(str): blanks around the literal are dropped, a sign may lead, and
\* digits must follow (the model hands it no literal with an underscore or
\* a digit outside ASCII); anything else is a ValueError.
IntOfStr(str) ==
    LET body == Strip(str)
        signed == Len(body) > 0 /\ SubSeq(body, 1, 1) \in {"+", "-"}
        digits == IF signed THEN SubSeq(body, 2, Len(body)) ELSE body
    IN IF /\ Len(digits) > 0
          /\ \A i \in 1..Len(digits) : DigitValue(SubSeq(digits, i, i)) >= 0
       THEN Returns(IF signed /\ SubSeq(body, 1, 1) = "-"
                    THEN 0 - Decimal(digits)
                    ELSE Decimal(digits))
       ELSE Escapes("ValueError")

\* int(x) for a Python value: an int is itself, a bool is 0 or 1, a finite
\* float is truncated towards zero (its digits before the point), an
\* infinity is an OverflowError, a NaN a ValueError; a str is parsed; None
\* and a list are a TypeError.
IntOf(x) ==
    CASE x.t = "int" -> Returns(x.v)
      [] x.t = "bool" -> Returns(IF x.v THEN 1 ELSE 0)
      [] x.t = "float" ->
           IF x.v \in {"inf", "-inf"} THEN Escapes("OverflowError")
           ELSE IF x.v = "nan" THEN Escapes("ValueError")
           ELSE LET dot == CHOOSE i \in 1..Len(x.v) : SubSeq(x.v, i, i) = "."
                IN IntOfStr(SubSeq(x.v, 1, dot - 1))
      [] x.t = "str" -> IntOfStr(x.v)
      [] OTHER -> Escapes("TypeError")

\* Provider.set_capacity, lines 103-110: the capacity it computes for the
\* argument c, or the exception that escapes it
Capacity(c) ==
    IF c = PyNone \/ c = PyStr("None")
    THEN Returns(-1)
    ELSE LET n == IntOf(c)
         IN IF n.kind = "raise" /\ n.exc \in {"TypeError", "ValueError"}
            THEN Returns(0)
            ELSE n

\* The values a caller may hand to set_capacity.
CapacityChoices ==
    {PyNone, PyStr("None"), PyInt(-1), PyInt(0), PyInt(3),
     PyStr("3"), PyStr(" 12 "), PyStr("-2"), PyStr("+4"), PyStr("007"),
     PyStr(""), PyStr("three"), PyStr("2.5"), PyStr("none"), PyStr("1 2"),
     PyStr("-"), PyBool(TRUE), PyBool(FALSE),
     PyFloat("2.7"), PyFloat("-2.7"), PyFloat("0.0"), PyFloat("inf"),
     PyFloat("nan"),
     PyList(<<>>), PyList(<<"3">>)}

\* Provider.set_capacity
set_capacity ==
    /\ provider # None
    /\ Configuring
    /\ Enter("set_capacity", TRUE, "")
    /\ \E c \in CapacityChoices :
        /\ capacity_arg' = c
        /\ IF Capacity(c).kind = "raise"
           THEN /\ capacity' = capacity
                /\ Finish(Capacity(c))
           ELSE /\ capacity' = PyInt(Capacity(c).v)
                /\ Finish(ReturnStatus(None))
    /\ calls' = <<>> /\ fetches' = 0
    /\ UNCHANGED <<config, provider, template, environment, thread2>>
    /\ UNCHANGED <<osVars, gcVars, awsVars, aws_state>>

(***************************************************************************)
(* OpenStack: the Heat and Nova backend.                                   *)
(***************************************************************************)
NoStack == [stack_status |-> None, outputs |-> <<>>]

\* The native actions and states of a Heat stack_status "<ACTION>_<STATE>".
HeatStatus(action, state) == action \o "_" \o state

\* The outputs attribute a Heat stack may carry.
HeatOutputChoices ==
    { <<>>,
      <<[output_key |-> "public_ip", output_value |-> PyStr("192.0.2.10")]>>,
      <<[output_key |-> "public_ip", output_value |-> PyStr("192.0.2.10")],
        [output_key |-> "reboot_on_resume",
         output_value |-> PyList(<<"srv-1", "srv-2">>)]>> }

\* heat_c.stacks.get: the stack, not-found, or another HTTP fault.
HeatGetResponses ==
    (IF heat_stack = NoStack THEN {"HTTPNotFound"} ELSE {"ok"}) \cup {"HTTPException"}

\* heat_c.stacks.create: a stack of the name must not exist yet.
HeatCreateResponses ==
    (IF heat_stack = NoStack THEN {"ok"} ELSE {}) \cup {"HTTPException"}

\* heat_c.actions.suspend/resume and heat_c.stacks.delete on the name.
HeatActionResponses ==
    (IF heat_stack = NoStack THEN {"HTTPNotFound"} ELSE {"ok"}) \cup {"HTTPException"}

\* nova_c.keypairs.create: the name must be free.
NovaCreateResponses ==
    (IF nova_keypair THEN {} ELSE {"ok"}) \cup {"ClientException"}

\* nova_c.keypairs.delete
NovaDeleteResponses ==
    (IF nova_keypair THEN {"ok"} ELSE {"NotFound"}) \cup {"ClientException"}

\* The Heat engine starts an accepted action.
HeatEngine ==
    /\ provider = "openstack"
    /\ heat_pending # None
    /\ heat_stack' = IF heat_stack = NoStack
                     THEN NoStack
                     ELSE [heat_stack EXCEPT
                              !.stack_status = HeatStatus(heat_pending, IN_PROGRESS)]
    /\ heat_pending' = None
    /\ UNCHANGED <<cfgVars, thread2, drvVars, nova_keypair, gcVars, awsVars, aws_state>>

\* An action in progress completes or fails.
HeatProgress ==
    /\ provider = "openstack"
    /\ heat_stack # NoStack
    /\ Contains(IN_PROGRESS, heat_stack.stack_status)
    /\ LET s == heat_stack.stack_status
           action == SubSeq(s, 1, Len(s) - Len(IN_PROGRESS) - 1)
       IN \E state \in {"COMPLETE", FAILED} :
              heat_stack' = [heat_stack EXCEPT !.stack_status = HeatStatus(action, state)]
    /\ UNCHANGED <<cfgVars, thread2, drvVars, heat_pending, nova_keypair, gcVars, awsVars, aws_state>>

\* A deleted stack is no longer found.
HeatPurge ==
    /\ provider = "openstack"
    /\ heat_stack # NoStack
    /\ heat_stack.stack_status = DELETE_COMPLETE
    /\ heat_stack' = NoStack
    /\ UNCHANGED <<cfgVars, thread2, drvVars, heat_pending, nova_keypair, gcVars, awsVars, aws_state>>

\* Somebody else deletes the stack, or runs a check on a settled stack.
HeatOtherActor ==
    /\ provider = "openstack"
    /\ heat_stack # NoStack
    /\ \E action \in {"DELETE", "CHECK"} :
        /\ action = "CHECK" => ~Contains(IN_PROGRESS, heat_stack.stack_status)
        /\ heat_stack.stack_status # HeatStatus(action, IN_PROGRESS)
        /\ heat_stack' = [heat_stack EXCEPT
                             !.stack_status = HeatStatus(action, IN_PROGRESS)]
    /\ UNCHANGED <<cfgVars, thread2, drvVars, heat_pending, nova_keypair, gcVars, awsVars, aws_state>>

(***************************************************************************)
(* OpenStack: the driver.                                                  *)
(***************************************************************************)
\* OpenstackProvider._get_stack_outputs: the outputs list as a dict; a later
\* entry of a key overwrites an earlier one.
_get_stack_outputs(stack) ==
    LET outs == stack.outputs
        keys == {outs[i].output_key : i \in DOMAIN outs}
        last(k) == CHOOSE i \in DOMAIN outs :
                       /\ outs[i].output_key = k
                       /\ \A j \in DOMAIN outs : outs[j].output_key = k => j <= i
    IN [k \in keys |-> outs[last(k)].output_value]

\* OpenstackProvider.get_stacks
OsGetStacks ==
    /\ provider = "openstack"
    /\ Enter("get_stacks", TRUE, "")
    /\ \E r \in {"ok", "HTTPNotFound", "HTTPException"} :
        /\ calls' = <<Call("stacks.list", r)>>
        /\ Finish(CASE r = "HTTPNotFound" -> [kind |-> "return", stacks |-> <<>>]
                    [] r = "HTTPException" -> ProviderException(r)
                    [] OTHER ->
                         [kind |-> "return",
                          stacks |-> IF heat_stack = NoStack
                                     THEN <<>>
                                     ELSE <<[name |-> "name",
                                             status |-> heat_stack.stack_status]>>])
    /\ fetches' = 0
    /\ UNCHANGED <<cfgVars, thread2, osVars, gcVars, awsVars, aws_state>>

\* OpenstackProvider.get_stack
OsGetStack ==
    /\ provider = "openstack"
    /\ Enter("get_stack", TRUE, "")
    /\ \E r \in HeatGetResponses :
        /\ calls' = <<Call("stacks.get", r)>>
        /\ Finish(CASE r = "HTTPNotFound" -> ReturnStack(DELETE_COMPLETE, EmptyDict)
                    [] r = "HTTPException" -> ProviderException(r)
                    [] OTHER -> ReturnStack(heat_stack.stack_status,
                                            _get_stack_outputs(heat_stack)))
    /\ fetches' = 1
    /\ UNCHANGED <<cfgVars, thread2, osVars, gcVars, awsVars, aws_state>>

\* The key types a caller may ask create_stack for; "" asks for no key pair.
KeyTypes == {"", "rsa", "ed25519"}

\* OpenstackProvider.create_stack, lines 673-679: the template check.
OsCreateStack ==
    /\ provider = "openstack"
    /\ \E k \in KeyTypes :
        /\ Enter("create_stack", TRUE, k)
        /\ IF template = NoPayload
           THEN Finish(ProviderException("Template not set"))
           ELSE Goto(IF k # "" THEN "os_create_keypair" ELSE "os_create_submit", None)
    /\ calls' = <<>>
    /\ fetches' = 0
    /\ UNCHANGED <<cfgVars, thread2, osVars, gcVars, awsVars, aws_state>>

\* lines 680-688: nova_c.keypairs.create
OsCreateKeypair ==
    /\ pc = "os_create_keypair"
    /\ \E r \in NovaCreateResponses :
        /\ calls' = Append(calls, Call("keypairs.create", r))
        /\ IF r = "ok"
           THEN /\ nova_keypair' = TRUE
                /\ Goto("os_create_submit", None)
           ELSE /\ nova_keypair' = nova_keypair
                /\ Finish(ProviderException(r))
    /\ UNCHANGED <<cfgVars, thread2, op, began, wait, key_type, count, sleeps, slept, fetches>>
    /\ UNCHANGED <<heat_stack, heat_pending, gcVars, awsVars, aws_state>>

\* lines 690-701: heat_c.stacks.create
OsCreateSubmit ==
    /\ pc = "os_create_submit"
    /\ \E r \in HeatCreateResponses :
        /\ calls' = Append(calls, Call("stacks.create", r))
        /\ IF r = "ok"
           THEN /\ \E o \in HeatOutputChoices :
                     heat_stack' = [stack_status |-> HeatStatus("CREATE", IN_PROGRESS),
                                    outputs |-> o]
                /\ Goto("os_create_sleep0", None)
           ELSE /\ heat_stack' = heat_stack
                /\ Finish(ProviderException(r))
    /\ UNCHANGED <<cfgVars, thread2, op, began, wait, key_type, count, sleeps, slept, fetches>>
    /\ UNCHANGED <<heat_pending, nova_keypair, gcVars, awsVars, aws_state>>

\* Variant of the result of create_stack: the private_key entry is there
\* whether or not a key pair was generated.
OsCreateResult_AlwaysKey(st, stack, k) ==
    IF Contains(FAILED, st)
    THEN ProviderException("Failure creating OpenStack Heat stack.")
    ELSE [kind |-> "return", status |-> st, outputs |-> _get_stack_outputs(stack),
          private_key |-> "private_key"]

\* lines 727-735: the result of create_stack once the loop is left.
OsCreateResult(st, stack, k) ==
    IF Contains(FAILED, st)
    THEN ProviderException("Failure creating OpenStack Heat stack.")
    ELSE IF k # ""
    THEN [kind |-> "return", status |-> st, outputs |-> _get_stack_outputs(stack),
          private_key |-> "private_key"]
    ELSE ReturnStack(st, _get_stack_outputs(stack))

\* line 714: while IN_PROGRESS in status
OsCreateLoops(st) == Contains(IN_PROGRESS, st)

\* Variant of the fetch of create_stack: a stack that is not found counts as
\* deleted, as it does in get_stack.
OsCreateFetch_NotFoundDeleted(notFound) ==
    /\ \E r \in HeatGetResponses :
        /\ calls' = Append(calls, Call("stacks.get", r))
        /\ CASE r = "HTTPNotFound" -> Finish(ReturnStack(DELETE_COMPLETE, EmptyDict))
             [] r = "HTTPException" -> Finish(ProviderException(r))
             [] OTHER ->
                  IF OsCreateLoops(heat_stack.stack_status)
                  THEN Goto("os_create_sleep", heat_stack.stack_status)
                  ELSE Finish(OsCreateResult(heat_stack.stack_status, heat_stack, key_type))
    /\ fetches' = fetches + 1
    /\ UNCHANGED <<cfgVars, thread2, op, began, wait, key_type, count, sleeps, slept>>
    /\ UNCHANGED <<osVars, gcVars, awsVars, aws_state>>

\* A fetch of create_stack: stacks.get by id, then the loop condition.
OsCreateFetch(notFound) ==
    /\ \E r \in HeatGetResponses :
        /\ calls' = Append(calls, Call("stacks.get", r))
        /\ CASE r = "HTTPNotFound" -> Finish(ProviderException(notFound))
             [] r = "HTTPException" -> Finish(ProviderException(r))
             [] OTHER ->
                  IF OsCreateLoops(heat_stack.stack_status)
                  THEN Goto("os_create_sleep", heat_stack.stack_status)
                  ELSE Finish(OsCreateResult(heat_stack.stack_status, heat_stack, key_type))
    /\ fetches' = fetches + 1
    /\ UNCHANGED <<cfgVars, thread2, op, began, wait, key_type, count, sleeps, slept>>
    /\ UNCHANGED <<osVars, gcVars, awsVars, aws_state>>

\* Variant of create_stack: the first fetch is not preceded by a sleep.
OsCreateSleep0_NoSleep ==
    /\ pc = "os_create_sleep0"
    /\ Goto("os_create_get0", status)
    /\ UNCHANGED <<cfgVars, thread2, op, began, wait, key_type, count, calls, fetches>>
    /\ UNCHANGED <<sleeps, slept, osVars, gcVars, awsVars, aws_state>>

\* lines 703-704: sleep to avoid throttling
OsCreateSleep0 ==
    /\ pc = "os_create_sleep0"
    /\ Sleep(sleep_seconds)
    /\ Goto("os_create_get0", status)
    /\ UNCHANGED <<cfgVars, thread2, op, began, wait, key_type, count, calls, fetches>>
    /\ UNCHANGED <<osVars, gcVars, awsVars, aws_state>>

\* lines 706-711: the first fetch; not-found is caught as an HTTPException
OsCreateGet0 ==
    /\ pc = "os_create_get0"
    /\ OsCreateFetch("HTTPNotFound")

\* line 715: the sleep of the creation loop
OsCreateSleep ==
    /\ pc = "os_create_sleep"
    /\ Sleep(sleep_seconds)
    /\ Goto("os_create_get", status)
    /\ UNCHANGED <<cfgVars, thread2, op, began, wait, key_type, count, calls, fetches>>
    /\ UNCHANGED <<osVars, gcVars, awsVars, aws_state>>

\* lines 717-725: the fetch of the creation loop
OsCreateGet ==
    /\ pc = "os_create_get"
    /\ OsCreateFetch("OpenStack Heat stack disappeared during creation.")

\* line 747: while FAILED not in status and status != RESUME_COMPLETE
OsResumeLoops(st) == ~Contains(FAILED, st) /\ st # RESUME_COMPLETE

\* lines 737-744: heat_c.actions.resume
OsResumeStack ==
    /\ provider = "openstack"
    /\ Enter("resume_stack", TRUE, "")
    /\ \E r \in HeatActionResponses :
        /\ calls' = <<Call("actions.resume", r)>>
        /\ IF r = "ok"
           THEN /\ heat_pending' = "RESUME"
                /\ Goto("os_resume_sleep", RESUME_IN_PROGRESS)
           ELSE /\ heat_pending' = heat_pending
                /\ Finish(ProviderException(r))
    /\ fetches' = 0
    /\ UNCHANGED <<cfgVars, thread2, heat_stack, nova_keypair, gcVars, awsVars, aws_state>>

\* line 749: the sleep of the resume loop
OsResumeSleep ==
    /\ pc = "os_resume_sleep"
    /\ Sleep(sleep_seconds)
    /\ Goto("os_resume_get", status)
    /\ UNCHANGED <<cfgVars, thread2, op, began, wait, key_type, count, calls, fetches>>
    /\ UNCHANGED <<osVars, gcVars, awsVars, aws_state>>

\* The servers resume_stack reboots: outputs["reboot_on_resume"] when a list.
RebootOnResume(outputs) ==
    LET r == DictGet(outputs, "reboot_on_resume")
    IN IF r.t = "list" THEN r.v ELSE <<>>

\* Variant of the reboots: the list is walked from its end.
RebootCalls_Reversed(servers_, n) ==
    [i \in 1..n |-> "servers.reboot:" \o servers_[Len(servers_) + 1 - i] \o ":HARD"]

\* nova_c.servers.reboot(server, 'HARD') for the first n of the servers
RebootCalls(servers_, n) ==
    [i \in 1..n |-> "servers.reboot:" \o servers_[i] \o ":HARD"]

\* lines 751-780: the fetch of the resume loop, and what follows the loop:
\* the failure check, then the reboots, each of which may fail.
OsResumeGet ==
    /\ pc = "os_resume_get"
    /\ \E r \in HeatGetResponses :
        CASE r = "HTTPNotFound" ->
               /\ Finish(ProviderException("OpenStack Heat stack disappeared during resume."))
               /\ calls' = Append(calls, Call("stacks.get", r))
          [] r = "HTTPException" ->
               /\ Finish(ProviderException(r))
               /\ calls' = Append(calls, Call("stacks.get", r))
          [] OTHER ->
               LET st == heat_stack.stack_status
                   outputs == _get_stack_outputs(heat_stack)
                   todo == RebootOnResume(outputs)
               IN IF OsResumeLoops(st)
                  THEN /\ Goto("os_resume_sleep", st)
                       /\ calls' = Append(calls, "stacks.get")
                  ELSE IF Contains(FAILED, st)
                  THEN /\ Finish(ProviderException("Failure resuming OpenStack Heat stack"))
                       /\ calls' = Append(calls, "stacks.get")
                  ELSE \E n \in 0..Len(todo), fault \in BOOLEAN :
                       /\ fault => n < Len(todo)
                       /\ ~fault => n = Len(todo)
                       /\ calls' = Append(calls, "stacks.get")
                                   \o RebootCalls(todo, n)
                                   \o (IF fault
                                       THEN <<Call(RebootCalls(todo, n + 1)[n + 1],
                                                   "ClientException")>>
                                       ELSE <<>>)
                       /\ Finish(IF fault
                                 THEN ProviderException("ClientException")
                                 ELSE ReturnStack(st, outputs))
    /\ fetches' = fetches + 1
    /\ UNCHANGED <<cfgVars, thread2, op, began, wait, key_type, count, sleeps, slept>>
    /\ UNCHANGED <<osVars, gcVars, awsVars, aws_state>>

\* Variant of the suspend loop's condition: a failure does not end the loop.
OsSuspendLoops_IgnoresFailed(st) == st # DELETE_COMPLETE /\ st # SUSPEND_COMPLETE

\* line 793: the suspend loop's condition
OsSuspendLoops(st) ==
    ~Contains(FAILED, st) /\ st # DELETE_COMPLETE /\ st # SUSPEND_COMPLETE

\* lines 808-812: the result of suspend_stack once the loop is left
OsSuspendResult(st) ==
    IF Contains(FAILED, st)
    THEN ProviderException("Failure suspending OpenStack Heat stack.")
    ELSE ReturnStatus(st)

\* lines 782-792: heat_c.actions.suspend
OsSuspendStack ==
    /\ provider = "openstack"
    /\ \E w \in BOOLEAN :
        /\ Enter("suspend_stack", w, "")
        /\ \E r \in HeatActionResponses :
            /\ IF r = "ok"
               THEN /\ heat_pending' = "SUSPEND"
                    /\ IF w
                       THEN Goto("os_suspend_sleep", SUSPEND_IN_PROGRESS)
                       ELSE Finish(ReturnStatus(SUSPEND_IN_PROGRESS))
               ELSE /\ heat_pending' = heat_pending
                    /\ Finish(ProviderException(r))
            /\ calls' = <<Call("actions.suspend", r)>>
    /\ fetches' = 0
    /\ UNCHANGED <<cfgVars, thread2, heat_stack, nova_keypair, gcVars, awsVars, aws_state>>

\* line 796: the sleep of the suspend loop
OsSuspendSleep ==
    /\ pc = "os_suspend_sleep"
    /\ Sleep(sleep_seconds)
    /\ Goto("os_suspend_get", status)
    /\ UNCHANGED <<cfgVars, thread2, op, began, wait, key_type, count, calls, fetches>>
    /\ UNCHANGED <<osVars, gcVars, awsVars, aws_state>>

\* lines 798-812: the fetch of the suspend loop
OsSuspendGet ==
    /\ pc = "os_suspend_get"
    /\ \E r \in HeatGetResponses :
        /\ calls' = Append(calls, Call("stacks.get", r))
        /\ IF r = "HTTPException"
           THEN Finish(ProviderException(r))
           ELSE LET st == IF r = "HTTPNotFound"
                          THEN DELETE_COMPLETE
                          ELSE heat_stack.stack_status
                IN IF OsSuspendLoops(st)
                   THEN Goto("os_suspend_sleep", st)
                   ELSE Finish(OsSuspendResult(st))
    /\ fetches' = fetches + 1
    /\ UNCHANGED <<cfgVars, thread2, op, began, wait, key_type, count, sleeps, slept>>
    /\ UNCHANGED <<osVars, gcVars, awsVars, aws_state>>

\* Variant of the delete loop's condition: a failure does not end the loop.
OsDeleteLoops_IgnoresFailed(st) == st # DELETE_COMPLETE

\* line 832: the delete loop's condition
OsDeleteLoops(st) == ~Contains(FAILED, st) /\ st # DELETE_COMPLETE

\* Variant of the result of delete_stack: the status is returned as fetched.
OsDeleteResult_ReturnsFailed(st) == ReturnStatus(st)

\* lines 846-850: the result of delete_stack once the loop is left
OsDeleteResult(st) ==
    IF Contains(FAILED, st)
    THEN ProviderException("Failure deleting OpenStack Heat stack.")
    ELSE ReturnStatus(st)

\* Variant of delete_stack: a key pair that is not found ends the operation.
OsDeleteStack_NotFoundAborts ==
    /\ provider = "openstack"
    /\ \E w \in BOOLEAN :
        /\ Enter("delete_stack", w, "")
        /\ \E r \in NovaDeleteResponses :
            /\ IF r = "ok"
               THEN /\ nova_keypair' = FALSE
                    /\ Goto("os_delete_submit", None)
               ELSE /\ nova_keypair' = nova_keypair
                    /\ Finish(Escapes(r))
            /\ calls' = <<Call("keypairs.delete", r)>>
    /\ fetches' = 0
    /\ UNCHANGED <<cfgVars, thread2, heat_stack, heat_pending, gcVars, awsVars, aws_state>>

\* lines 814-820: nova_c.keypairs.delete; only NotFound is caught
OsDeleteStack ==
    /\ provider = "openstack"
    /\ \E w \in BOOLEAN :
        /\ Enter("delete_stack", w, "")
        /\ \E r \in NovaDeleteResponses :
            /\ IF r = "ClientException"
               THEN /\ nova_keypair' = nova_keypair
                    /\ Finish(Escapes(r))
               ELSE /\ nova_keypair' = FALSE
                    /\ Goto("os_delete_submit", None)
            /\ calls' = <<Call("keypairs.delete", r)>>
    /\ fetches' = 0
    /\ UNCHANGED <<cfgVars, thread2, heat_stack, heat_pending, gcVars, awsVars, aws_state>>

\* Variant of delete_stack: the deletion is waited for whatever wait says.
OsDeleteSubmit_AlwaysWaits ==
    /\ pc = "os_delete_submit"
    /\ \E r \in HeatActionResponses :
        /\ calls' = Append(calls, Call("stacks.delete", r))
        /\ IF r = "ok"
           THEN /\ heat_pending' = "DELETE"
                /\ Goto("os_delete_sleep", DELETE_IN_PROGRESS)
           ELSE /\ heat_pending' = heat_pending
                /\ Finish(ProviderException(r))
    /\ UNCHANGED <<cfgVars, thread2, op, began, wait, key_type, count, sleeps, slept, fetches>>
    /\ UNCHANGED <<heat_stack, nova_keypair, gcVars, awsVars, aws_state>>

\* lines 822-831: heat_c.stacks.delete
OsDeleteSubmit ==
    /\ pc = "os_delete_submit"
    /\ \E r \in HeatActionResponses :
        /\ calls' = Append(calls, Call("stacks.delete", r))
        /\ IF r = "ok"
           THEN /\ heat_pending' = "DELETE"
                /\ IF wait
                   THEN Goto("os_delete_sleep", DELETE_IN_PROGRESS)
                   ELSE Finish(ReturnStatus(DELETE_IN_PROGRESS))
           ELSE /\ heat_pending' = heat_pending
                /\ Finish(ProviderException(r))
    /\ UNCHANGED <<cfgVars, thread2, op, began, wait, key_type, count, sleeps, slept, fetches>>
    /\ UNCHANGED <<heat_stack, nova_keypair, gcVars, awsVars, aws_state>>

\* line 834: the sleep of the delete loop
OsDeleteSleep ==
    /\ pc = "os_delete_sleep"
    /\ Sleep(sleep_seconds)
    /\ Goto("os_delete_get", status)
    /\ UNCHANGED <<cfgVars, thread2, op, began, wait, key_type, count, calls, fetches>>
    /\ UNCHANGED <<osVars, gcVars, awsVars, aws_state>>

\* lines 836-850: the fetch of the delete loop
OsDeleteGet ==
    /\ pc = "os_delete_get"
    /\ \E r \in HeatGetResponses :
        /\ calls' = Append(calls, Call("stacks.get", r))
        /\ IF r = "HTTPException"
           THEN Finish(ProviderException(r))
           ELSE LET st == IF r = "HTTPNotFound"
                          THEN DELETE_COMPLETE
                          ELSE heat_stack.stack_status
                IN IF OsDeleteLoops(st)
                   THEN Goto("os_delete_sleep", st)
                   ELSE Finish(OsDeleteResult(st))
    /\ fetches' = fetches + 1
    /\ UNCHANGED <<cfgVars, thread2, op, began, wait, key_type, count, sleeps, slept>>
    /\ UNCHANGED <<osVars, gcVars, awsVars, aws_state>>

NextOpenstack ==
    \/ HeatEngine \/ HeatProgress \/ HeatPurge \/ HeatOtherActor
    \/ OsGetStacks \/ OsGetStack
    \/ OsCreateStack \/ OsCreateKeypair \/ OsCreateSubmit
    \/ OsCreateSleep0 \/ OsCreateGet0 \/ OsCreateSleep \/ OsCreateGet
    \/ OsResumeStack \/ OsResumeSleep \/ OsResumeGet
    \/ OsSuspendStack \/ OsSuspendSleep \/ OsSuspendGet
    \/ OsDeleteStack \/ OsDeleteSubmit \/ OsDeleteSleep \/ OsDeleteGet

\* A freshly constructed driver of provider p: nothing configured, no
\* operation yet.
InitDriver(p) ==
    /\ provider = p
    /\ template = NoPayload
    /\ environment = NoPayload
    /\ capacity = PyNone
    /\ capacity_arg = PyNone
    /\ pc = "idle"
    /\ op = None
    /\ began = [absent |-> TRUE, after_delete |-> FALSE]
    /\ wait = TRUE
    /\ key_type = ""
    /\ status = None
    /\ count = 0
    /\ result = NoResult
    /\ calls = <<>>
    /\ sleeps = 0
    /\ slept = 0
    /\ fetches = 0
    /\ thread2 = "idle"

\* The backends hold nothing of the stack's name.
InitOsBackend ==
    /\ heat_stack = NoStack
    /\ heat_pending = None
    /\ nova_keypair = FALSE

InitGcBackend ==
    /\ deployment = [exists |-> FALSE, layout |-> "none"]
    /\ operation = [operationType |-> None, status |-> None, error |-> "none"]
    /\ servers = <<>>

InitAwsBackend ==
    /\ ec2_instances = <<>>
    /\ ssm_parameter = FALSE
    /\ ec2_key_pair = FALSE

InitOf(p) ==
    /\ config = ConfigOf(p)
    /\ InitDriver(p)
    /\ InitOsBackend
    /\ InitGcBackend
    /\ InitAwsBackend
    /\ aws_state = 0

SpecOpenstack == InitOf("openstack") /\ [][NextOpenstack \/ set_template \/ set_environment]_vars

(***************************************************************************)
(* AWS: the EC2 and SSM backend.                                           *)
(***************************************************************************)
\* The state codes EC2 reports: pending, running, shutting-down, terminated,
\* stopping, stopped.
Ec2Codes == {0, 16, 32, 48, 64, 80}

NoInstance == [code |-> -1, deleted |-> FALSE, ip |-> FALSE]

\* An instance as run_instances launches it: pending, no address yet.
NewInstance == [code |-> 0, deleted |-> FALSE, ip |-> FALSE]

\* seq with x inserted so that it becomes element i
InsertAt(seq, i, x) == SubSeq(seq, 1, i - 1) \o <<x>> \o SubSeq(seq, i, Len(seq))

\* seq without its element i
RemoveAt(seq, i) == SubSeq(seq, 1, i - 1) \o SubSeq(seq, i + 1, Len(seq))

\* An instance moves on: pending to running, shutting-down to terminated,
\* stopping to stopped; a running instance shuts itself down.
Ec2Progress ==
    /\ provider = "aws"
    /\ \E i \in DOMAIN ec2_instances :
        LET c == ec2_instances[i].code
        IN /\ c \in {0, 16, 32, 64}
           /\ ec2_instances' = [ec2_instances EXCEPT ![i].code =
                                   CASE c = 0 -> 16
                                     [] c = 16 -> 64
                                     [] c = 32 -> 48
                                     [] OTHER -> 80]
    /\ UNCHANGED <<cfgVars, thread2, drvVars, osVars, gcVars, ssm_parameter, ec2_key_pair, aws_state>>

\* A launched instance gets its private address.
Ec2AssignIp ==
    /\ provider = "aws"
    /\ \E i \in DOMAIN ec2_instances :
        /\ ~ec2_instances[i].ip
        /\ ec2_instances[i].code \in {0, 16}
        /\ ec2_instances' = [ec2_instances EXCEPT ![i].ip = TRUE]
    /\ UNCHANGED <<cfgVars, thread2, drvVars, osVars, gcVars, ssm_parameter, ec2_key_pair, aws_state>>

\* A terminated instance leaves the listing.
Ec2Reap ==
    /\ provider = "aws"
    /\ \E i \in DOMAIN ec2_instances :
        /\ ec2_instances[i].code = 48
        /\ ec2_instances' = RemoveAt(ec2_instances, i)
    /\ UNCHANGED <<cfgVars, thread2, drvVars, osVars, gcVars, ssm_parameter, ec2_key_pair, aws_state>>

(***************************************************************************)
(* AWS: the driver.                                                        *)
(***************************************************************************)
\* Variant of _get_deployment_status: an unlisted state code falls back to
\* IN_PROGRESS instead of raising.
Aws_get_deployment_status_Default(state) ==
    IF state = 16 THEN ReturnStatus(CREATE_COMPLETE)
    ELSE IF state = 32 THEN ReturnStatus(DELETE_IN_PROGRESS)
    ELSE IF state = 48 THEN ReturnStatus(DELETE_COMPLETE)
    ELSE IF state = 64 THEN ReturnStatus(SUSPEND_IN_PROGRESS)
    ELSE IF state = 80 THEN ReturnStatus(SUSPEND_COMPLETE)
    ELSE ReturnStatus(IN_PROGRESS)

\* Variant of _get_deployment_status: the shutting-down state keeps EC2's
\* own name.
Aws_get_deployment_status_Native(state) ==
    IF state = 0 THEN ReturnStatus(IN_PROGRESS)
    ELSE IF state = 16 THEN ReturnStatus(CREATE_COMPLETE)
    ELSE IF state = 32 THEN ReturnStatus("shutting-down")
    ELSE IF state = 48 THEN ReturnStatus(DELETE_COMPLETE)
    ELSE IF state = 64 THEN ReturnStatus(SUSPEND_IN_PROGRESS)
    ELSE IF state = 80 THEN ReturnStatus(SUSPEND_COMPLETE)
    ELSE ProviderException("Unknown AWS state")

\* AwsProvider._get_deployment_status
Aws_get_deployment_status(state) ==
    IF state = 0 THEN ReturnStatus(IN_PROGRESS)
    ELSE IF state = 16 THEN ReturnStatus(CREATE_COMPLETE)
    ELSE IF state = 32 THEN ReturnStatus("DELETE_" \o IN_PROGRESS)
    ELSE IF state = 48 THEN ReturnStatus(DELETE_COMPLETE)
    ELSE IF state = 64 THEN ReturnStatus(SUSPEND_IN_PROGRESS)
    ELSE IF state = 80 THEN ReturnStatus(SUSPEND_COMPLETE)
    ELSE ProviderException("Unknown AWS state")

\* AwsProvider._get_instance: looks for an instance without a 'deleted' tag,
\* and when there is one returns ec2_instances[0].
_get_instance(instances) ==
    IF \E i \in DOMAIN instances : ~instances[i].deleted
    THEN instances[1]
    ELSE NoInstance

\* AwsProvider._get_instance_outputs; param is FALSE when get_parameter raises
_get_instance_outputs(instances, param) ==
    LET instance == _get_instance(instances)
    IN IF instance = NoInstance \/ ~param
       THEN EmptyDict
       ELSE [public_ip |-> IF instance.ip THEN PyStr("10.0.0.5") ELSE PyNone,
             private_key |-> PyStr("private_key"),
             password |-> PyStr(""),
             reboot_on_resume |-> PyNone]

\* ec2_r.instances.filter: the listing, or a fault of the API
Ec2DescribeResponses == {"ok", "ClientError"}

\* ssm_c.get_parameter
SsmGetResponses == (IF ssm_parameter THEN {"ok"} ELSE {"ParameterNotFound"}) \cup {"ClientError"}

\* Variant of get_stack: a missing instance is an error.
AwsGetStackResult_NotFoundRaises(instances, d, p) ==
    IF d # "ok"
    THEN Escapes(d)
    ELSE LET instance == _get_instance(instances)
         IN IF instance = NoInstance
            THEN ProviderException("Instance not found")
            ELSE LET st == Aws_get_deployment_status(instance.code)
                 IN IF st.kind = "raise"
                    THEN st
                    ELSE ReturnStack(st.status, _get_instance_outputs(instances, p = "ok"))

\* AwsProvider.get_stack, given what the listing and get_parameter answer
AwsGetStackResult(instances, d, p) ==
    IF d # "ok"
    THEN Escapes(d)
    ELSE LET instance == _get_instance(instances)
         IN IF instance = NoInstance
            THEN ReturnStack(DELETE_COMPLETE, EmptyDict)
            ELSE LET st == Aws_get_deployment_status(instance.code)
                 IN IF st.kind = "raise"
                    THEN st
                    ELSE ReturnStack(st.status, _get_instance_outputs(instances, p = "ok"))

\* The backend calls get_stack makes for these answers: the status is
\* computed before _get_instance_outputs looks the instance up again
AwsGetStackCalls(instances, d, p) ==
    IF d # "ok" \/ _get_instance(instances) = NoInstance
    THEN <<Call("instances.filter", d)>>
    ELSE IF Aws_get_deployment_status(_get_instance(instances).code).kind = "raise"
    THEN <<"instances.filter">>
    ELSE <<"instances.filter", "instances.filter", Call("get_parameter", p)>>

\* AwsProvider.get_stack
AwsGetStack ==
    /\ provider = "aws"
    /\ Enter("get_stack", TRUE, "")
    /\ \E d \in Ec2DescribeResponses, p \in SsmGetResponses :
        /\ Finish(AwsGetStackResult(ec2_instances, d, p))
        /\ calls' = AwsGetStackCalls(ec2_instances, d, p)
    /\ fetches' = 1
    /\ UNCHANGED <<cfgVars, thread2, osVars, gcVars, awsVars, aws_state>>

\* AwsProvider.get_stacks, lines 277-299.  describe_parameters lists the
\* parameter create_stack put, with the tags it put on it.  For each
\* parameter found_purpose_tag starts False (line 283) and the statement
\* under the test of the Purpose tag (line 288) names it without assigning
\* to it; the Stack tag gives stack_name.  A parameter is listed when both
\* hold, with the status of get_stack.  No exception of the API is caught.
AwsGetStacks ==
    /\ provider = "aws"
    /\ Enter("get_stacks", TRUE, "")
    /\ \E r \in {"ok", "ClientError"}, d \in Ec2DescribeResponses, p \in SsmGetResponses :
        LET parameters ==
                IF ssm_parameter
                THEN <<[Tags |-> <<[Name |-> "Stack", Value |-> "name"],
                                   [Name |-> "Purpose", Value |-> "Hastexo"]>>]>>
                ELSE <<>>
            found_purpose_tag(parameter) == FALSE
            stack_name(parameter) ==
                IF \E i \in DOMAIN parameter.Tags : parameter.Tags[i].Name = "Stack"
                THEN "name"
                ELSE None
            Listed(parameter) ==
                found_purpose_tag(parameter) /\ stack_name(parameter) # None
            listed == SelectSeq(parameters, Listed)
            res == AwsGetStackResult(ec2_instances, d, p)
        IN /\ listed = <<>> => (d = "ok" /\ p \in {"ok", "ParameterNotFound"})
           /\ calls' = <<Call("describe_parameters", r)>>
                       \o (IF r = "ok" /\ listed # <<>>
                           THEN AwsGetStackCalls(ec2_instances, d, p) ELSE <<>>)
           /\ Finish(IF r # "ok" THEN Escapes(r)
                     ELSE IF listed # <<>> /\ res.kind = "raise" THEN res
                     ELSE [kind |-> "return",
                           stacks |-> [i \in DOMAIN listed |->
                                          [name |-> stack_name(listed[i]),
                                           status |-> res.status]]])
    /\ fetches' = 0
    /\ UNCHANGED <<cfgVars, thread2, osVars, gcVars, awsVars, aws_state>>

\* Variant of the template check: the last required property is not looked at.
AwsTemplateCheck_SkipsLast(t) ==
    IF t = NoPayload \/ t = YamlError
    THEN ProviderException("Invalid template YAML.")
    ELSE IF t.yaml # "mapping"
    THEN Escapes("AttributeError")
    ELSE IF \E i \in 1..3 : RequiredProps[i] \notin t.keys
    THEN LET i == CHOOSE i \in 1..3 :
                      /\ RequiredProps[i] \notin t.keys
                      /\ \A j \in 1..(i - 1) : RequiredProps[j] \in t.keys
         IN ProviderException("Missing required property: " \o RequiredProps[i])
    ELSE NoResult

\* create_stack, lines 390-399: the template as YAML, and its required
\* properties in the order they are checked
AwsTemplateCheck(t) ==
    IF t = NoPayload \/ t = YamlError
    THEN ProviderException("Invalid template YAML.")
    ELSE IF t.yaml # "mapping"
    THEN Escapes("AttributeError")
    ELSE IF \E i \in DOMAIN RequiredProps : RequiredProps[i] \notin t.keys
    THEN LET i == CHOOSE i \in DOMAIN RequiredProps :
                      /\ RequiredProps[i] \notin t.keys
                      /\ \A j \in 1..(i - 1) : RequiredProps[j] \in t.keys
         IN ProviderException("Missing required property: " \o RequiredProps[i])
    ELSE NoResult

\* AwsProvider.create_stack, lines 380-399
AwsCreateStack ==
    /\ provider = "aws"
    /\ \E k \in KeyTypes :
        /\ Enter("create_stack", TRUE, k)
        /\ IF AwsTemplateCheck(template) = NoResult
           THEN Goto("aws_create_import", None)
           ELSE Finish(AwsTemplateCheck(template))
    /\ calls' = <<>>
    /\ fetches' = 0
    /\ UNCHANGED <<cfgVars, thread2, osVars, gcVars, awsVars, aws_state>>

\* lines 404-410: ec2_c.import_key_pair; the key name must be free
AwsCreateImport ==
    /\ pc = "aws_create_import"
    /\ \E r \in (IF ec2_key_pair THEN {} ELSE {"ok"}) \cup {"ClientError"} :
        /\ calls' = Append(calls, Call("import_key_pair", r))
        /\ IF r = "ok"
           THEN /\ ec2_key_pair' = TRUE
                /\ Goto("aws_create_put", None)
           ELSE /\ ec2_key_pair' = ec2_key_pair
                /\ Finish(ProviderException(r))
    /\ UNCHANGED <<cfgVars, thread2, op, began, wait, key_type, count, sleeps, slept, fetches>>
    /\ UNCHANGED <<osVars, gcVars, ec2_instances, ssm_parameter, aws_state>>

\* lines 412-431: ssm_c.put_parameter with Overwrite=False
AwsCreatePut ==
    /\ pc = "aws_create_put"
    /\ \E r \in (IF ssm_parameter THEN {} ELSE {"ok"}) \cup {"ClientError"} :
        /\ calls' = Append(calls, Call("put_parameter", r))
        /\ IF r = "ok"
           THEN /\ ssm_parameter' = TRUE
                /\ Goto("aws_create_run", None)
           ELSE /\ ssm_parameter' = ssm_parameter
                /\ Finish(ProviderException(r))
    /\ UNCHANGED <<cfgVars, thread2, op, began, wait, key_type, count, sleeps, slept, fetches>>
    /\ UNCHANGED <<osVars, gcVars, ec2_instances, ec2_key_pair, aws_state>>

\* lines 433-467: ec2_c.run_instances; the new instance takes any place in
\* the listing
AwsCreateRun ==
    /\ pc = "aws_create_run"
    /\ \E r \in (IF Len(ec2_instances) < MaxInstances THEN {"ok"} ELSE {})
                \cup {"ClientError"} :
        /\ calls' = Append(calls, Call("run_instances", r))
        /\ IF r = "ok"
           THEN /\ \E i \in 1..(Len(ec2_instances) + 1) :
                     ec2_instances' = InsertAt(ec2_instances, i, NewInstance)
                /\ Goto("aws_create_get", None)
           ELSE /\ ec2_instances' = ec2_instances
                /\ Finish(ProviderException(r))
    /\ UNCHANGED <<cfgVars, thread2, op, began, wait, key_type, count, sleeps, slept, fetches>>
    /\ UNCHANGED <<osVars, gcVars, ssm_parameter, ec2_key_pair, aws_state>>

\* line 472: time.sleep(5)
AwsPollSeconds == 5
\* line 474: if count == 6
AwsPollAttempts == 6

\* An entry of the call log for a get_parameter that failed, which
\* _get_instance_outputs does not pass on (lines 346-347)
IsSwallowed(c) == c = "get_parameter!ClientError"

\* lines 469-471: res = self.get_stack(name); return it if it has a public_ip
AwsCreateGet ==
    /\ pc = "aws_create_get"
    /\ \E d \in Ec2DescribeResponses, p \in SsmGetResponses :
        LET res == AwsGetStackResult(ec2_instances, d, p)
        IN /\ p = "ClientError" =>
                 Len(SelectSeq(calls, IsSwallowed)) < MaxFaults
           /\ IF res.kind = "raise"
              THEN Finish(res)
              ELSE IF Truthy(DictGet(res.outputs, "public_ip"))
              THEN Finish(res)
              ELSE Goto("aws_create_sleep", None)
           /\ calls' = calls \o AwsGetStackCalls(ec2_instances, d, p)
    /\ fetches' = fetches + 1
    /\ UNCHANGED <<cfgVars, thread2, op, began, wait, key_type, count, sleeps, slept>>
    /\ UNCHANGED <<osVars, gcVars, awsVars, aws_state>>

\* Variant of the poll of create_stack: the count is compared before it is
\* incremented, which allows one attempt more.
AwsCreateSleep_OneMore ==
    /\ pc = "aws_create_sleep"
    /\ sleeps' = sleeps + 1
    /\ slept' = slept + AwsPollSeconds
    /\ count' = count + 1
    /\ IF count = AwsPollAttempts
       THEN Finish(ProviderException("Could not determine private IP of instance within reasonable time"))
       ELSE Goto("aws_create_get", None)
    /\ UNCHANGED <<cfgVars, thread2, op, began, wait, key_type, calls, fetches>>
    /\ UNCHANGED <<osVars, gcVars, awsVars, aws_state>>

\* lines 472-475: sleep, count, and give up at the last attempt
AwsCreateSleep ==
    /\ pc = "aws_create_sleep"
    /\ sleeps' = sleeps + 1
    /\ slept' = slept + AwsPollSeconds
    /\ count' = count + 1
    /\ IF count + 1 = AwsPollAttempts
       THEN Finish(ProviderException("Could not determine private IP of instance within reasonable time"))
       ELSE Goto("aws_create_get", None)
    /\ UNCHANGED <<cfgVars, thread2, op, began, wait, key_type, calls, fetches>>
    /\ UNCHANGED <<osVars, gcVars, awsVars, aws_state>>

\* AwsProvider.delete_stack, lines 477-495: find the instance, tag it
\* 'deleted' and terminate it; no exception of the API is caught
AwsDeleteStack ==
    /\ provider = "aws"
    /\ \E w \in BOOLEAN :
        /\ Enter("delete_stack", w, "")
        /\ \E d \in Ec2DescribeResponses :
            IF d # "ok"
            THEN /\ Finish(Escapes(d))
                 /\ calls' = <<Call("instances.filter", d)>>
                 /\ ec2_instances' = ec2_instances
            ELSE IF _get_instance(ec2_instances) = NoInstance
            THEN /\ Goto("aws_delete_parameter", None)
                 /\ calls' = <<"instances.filter">>
                 /\ ec2_instances' = ec2_instances
            ELSE /\ Goto("aws_delete_parameter", None)
                 /\ calls' = <<"instances.filter", "create_tags", "terminate">>
                 /\ ec2_instances' =
                       [ec2_instances EXCEPT
                           ![1] = [code |-> IF @.code = 48 THEN 48 ELSE 32,
                                   deleted |-> TRUE,
                                   ip |-> @.ip]]
    /\ fetches' = 0
    /\ UNCHANGED <<cfgVars, thread2, osVars, gcVars, ssm_parameter, ec2_key_pair, aws_state>>

\* lines 497-500: ssm_c.delete_parameter; a missing parameter is an error
AwsDeleteParameter ==
    /\ pc = "aws_delete_parameter"
    /\ \E r \in (IF ssm_parameter THEN {"ok"} ELSE {"ParameterNotFound"})
                \cup {"ClientError"} :
        /\ calls' = Append(calls, Call("delete_parameter", r))
        /\ IF r = "ok"
           THEN /\ ssm_parameter' = FALSE
                /\ Goto("aws_delete_key_pair", None)
           ELSE /\ ssm_parameter' = ssm_parameter
                /\ Finish(Escapes(r))
    /\ UNCHANGED <<cfgVars, thread2, op, began, wait, key_type, count, sleeps, slept, fetches>>
    /\ UNCHANGED <<osVars, gcVars, ec2_instances, ec2_key_pair, aws_state>>

\* lines 502-507: ec2_c.delete_key_pair, which accepts a missing key pair
AwsDeleteKeyPair ==
    /\ pc = "aws_delete_key_pair"
    /\ \E r \in {"ok", "ClientError"} :
        /\ calls' = Append(calls, Call("delete_key_pair", r))
        /\ IF r = "ok"
           THEN /\ ec2_key_pair' = FALSE
                /\ Finish(ReturnStatus(DELETE_COMPLETE))
           ELSE /\ ec2_key_pair' = ec2_key_pair
                /\ Finish(Escapes(r))
    /\ UNCHANGED <<cfgVars, thread2, op, began, wait, key_type, count, sleeps, slept, fetches>>
    /\ UNCHANGED <<osVars, gcVars, ec2_instances, ssm_parameter, aws_state>>

\* Variant of suspend_stack: the instances of the key name are stopped.
AwsSuspendStack_Stops ==
    /\ provider = "aws"
    /\ \E w \in BOOLEAN : Enter("suspend_stack", w, "")
    /\ Finish(ReturnStatus(SUSPEND_COMPLETE))
    /\ calls' = <<"stop_instances">>
    /\ ec2_instances' = [i \in DOMAIN ec2_instances |->
                            [ec2_instances[i] EXCEPT !.code = IF @ = 16 THEN 64 ELSE @]]
    /\ fetches' = 0
    /\ UNCHANGED <<cfgVars, thread2, osVars, gcVars, ssm_parameter, ec2_key_pair, aws_state>>

\* AwsProvider.suspend_stack, line 510; the rest of the body is never reached
AwsSuspendStack ==
    /\ provider = "aws"
    /\ \E w \in BOOLEAN : Enter("suspend_stack", w, "")
    /\ Finish(ReturnStatus(SUSPEND_COMPLETE))
    /\ calls' = <<>>
    /\ fetches' = 0
    /\ UNCHANGED <<cfgVars, thread2, osVars, gcVars, awsVars, aws_state>>

\* AwsProvider.resume_stack, line 554; the rest of the body is never reached
AwsResumeStack ==
    /\ provider = "aws"
    /\ Enter("resume_stack", TRUE, "")
    /\ \E d \in Ec2DescribeResponses, p \in SsmGetResponses :
        /\ Finish(AwsGetStackResult(ec2_instances, d, p))
        /\ calls' = AwsGetStackCalls(ec2_instances, d, p)
    /\ fetches' = 1
    /\ UNCHANGED <<cfgVars, thread2, osVars, gcVars, awsVars, aws_state>>

NextAws ==
    \/ Ec2Progress \/ Ec2AssignIp \/ Ec2Reap
    \/ AwsGetStacks \/ AwsGetStack
    \/ AwsCreateStack \/ AwsCreateImport \/ AwsCreatePut \/ AwsCreateRun
    \/ AwsCreateGet \/ AwsCreateSleep
    \/ AwsDeleteStack \/ AwsDeleteParameter \/ AwsDeleteKeyPair
    \/ AwsSuspendStack \/ AwsResumeStack

SpecAws == InitOf("aws") /\ [][NextAws \/ set_template \/ set_environment]_vars

(***************************************************************************)
(* Google Cloud: the Deployment Manager and Compute Engine backend.        *)
(***************************************************************************)
\* No deployment of the name; and a deployment with what its manifest's
\* layout holds: "none" (no manifest yet), "empty" (no outputs), "outputs".
NoDeployment == [exists |-> FALSE, layout |-> "none"]
Deployment(layout) == [exists |-> TRUE, layout |-> layout]

\* An operation of Deployment Manager: its type, its status, and its error:
\* "none", "empty" (an error without an errors list) or "message".
NoOperation == [operationType |-> None, status |-> None, error |-> "none"]
Operation(type, st, err) == [operationType |-> type, status |-> st, error |-> err]

\* The live statuses of a Compute Engine instance the model follows.
ServerStatuses ==
    {"PROVISIONING", "STAGING", "RUNNING", "STOPPING", "TERMINATED", "SUSPENDED"}

\* The operation in flight moves on: PENDING, RUNNING, then DONE with or
\* without an error. A finished insert brings the servers up, under a
\* template with or without outputs; a finished delete removes the deployment.
GcOperationProgress ==
    /\ provider = "gcloud"
    /\ operation.status \in {"PENDING", "RUNNING"}
    /\ \/ /\ operation.status = "PENDING"
          /\ operation' = [operation EXCEPT !.status = "RUNNING"]
          /\ UNCHANGED <<deployment, servers>>
       \/ /\ \E err \in {"empty", "message"} :
                operation' = [operation EXCEPT !.status = "DONE", !.error = err]
          /\ deployment' = IF operation.operationType = "insert"
                           THEN Deployment("empty")
                           ELSE deployment
          /\ UNCHANGED servers
       \/ /\ operation.operationType = "insert"
          /\ operation' = [operation EXCEPT !.status = "DONE"]
          /\ \E layout \in {"empty", "outputs"} : deployment' = Deployment(layout)
          /\ \E n \in 0..MaxServers : servers' = [i \in 1..n |-> "RUNNING"]
       \/ /\ operation.operationType = "delete"
          /\ operation' = [operation EXCEPT !.status = "DONE"]
          /\ deployment' = NoDeployment
          /\ servers' = <<>>
    /\ UNCHANGED <<cfgVars, thread2, drvVars, osVars, awsVars, aws_state>>

\* A server moves on: stopping to terminated, provisioning to staging to
\* running.
GcServerProgress ==
    /\ provider = "gcloud"
    /\ \E i \in DOMAIN servers :
        /\ servers[i] \in {"STOPPING", "PROVISIONING", "STAGING"}
        /\ servers' = [servers EXCEPT ![i] =
                          CASE @ = "STOPPING" -> "TERMINATED"
                            [] @ = "PROVISIONING" -> "STAGING"
                            [] OTHER -> "RUNNING"]
    /\ UNCHANGED <<cfgVars, thread2, drvVars, osVars, deployment, operation, awsVars, aws_state>>

\* Somebody else suspends a running server, or resumes it.
GcOtherActor ==
    /\ provider = "gcloud"
    /\ \E i \in DOMAIN servers :
        /\ servers[i] \in {"RUNNING", "SUSPENDED"}
        /\ servers' = [servers EXCEPT ![i] =
                          IF @ = "RUNNING" THEN "SUSPENDED" ELSE "RUNNING"]
    /\ UNCHANGED <<cfgVars, thread2, drvVars, osVars, deployment, operation, awsVars, aws_state>>

\* ds.deployments().get / delete, ds.resources().list: 404 without the
\* deployment
DeploymentResponses ==
    (IF deployment.exists THEN {"ok"} ELSE {"404"}) \cup {"GcloudApiError"}

\* ds.deployments().insert: the name must be free
InsertResponses ==
    (IF deployment.exists THEN {} ELSE {"ok"}) \cup {"GcloudApiError"}

\* ds.operations().get: the operation; 404 is possible once the deployment
\* is gone
OperationResponses ==
    {"ok", "GcloudApiError"} \cup (IF deployment.exists THEN {} ELSE {"404"})

(***************************************************************************)
(* Google Cloud: the driver.                                               *)
(***************************************************************************)
\* Variant of _get_deployment_status: a STAGING server is looked for before
\* a STOPPING one.
Gcloud_get_deployment_status_StagingFirst(dep, srv) ==
    IF ~dep.has_operation
    THEN ProviderException("Operation not found.")
    ELSE IF dep.operationType \notin {"insert", "update", "delete"}
    THEN ProviderException("Unknown operation type")
    ELSE IF dep.status \notin {"DONE", "PENDING", "RUNNING"}
    THEN ProviderException("Unknown operation status")
    ELSE LET optype == CASE dep.operationType = "insert" -> "CREATE"
                         [] dep.operationType = "update" -> "UPDATE"
                         [] OTHER -> "DELETE"
             opstatus == IF dep.status = "DONE" THEN "COMPLETE" ELSE IN_PROGRESS
             st == optype \o "_" \o opstatus
         IN IF st # CREATE_COMPLETE
            THEN ReturnStatus(st)
            ELSE IF srv.raised
            THEN ProviderException("GcloudApiError")
            ELSE IF Len(srv.list) = 0
            THEN ReturnStatus(st)
            ELSE IF \E i \in DOMAIN srv.list : srv.list[i] = "STAGING"
            THEN ReturnStatus(RESUME_IN_PROGRESS)
            ELSE IF \E i \in DOMAIN srv.list : srv.list[i] = "STOPPING"
            THEN ReturnStatus(SUSPEND_IN_PROGRESS)
            ELSE IF \A i \in DOMAIN srv.list : srv.list[i] = "TERMINATED"
            THEN ReturnStatus(SUSPEND_COMPLETE)
            ELSE ReturnStatus(st)

\* GcloudProvider._get_deployment_status; dep is the deployment read, with
\* has_operation telling whether it carries an operation; srv is what
\* _get_deployment_servers does: it raises, or returns the list
Gcloud_get_deployment_status(dep, srv) ==
    IF ~dep.has_operation
    THEN ProviderException("Operation not found.")
    ELSE IF dep.operationType \notin {"insert", "update", "delete"}
    THEN ProviderException("Unknown operation type")
    ELSE IF dep.status \notin {"DONE", "PENDING", "RUNNING"}
    THEN ProviderException("Unknown operation status")
    ELSE LET optype == CASE dep.operationType = "insert" -> "CREATE"
                         [] dep.operationType = "update" -> "UPDATE"
                         [] OTHER -> "DELETE"
             opstatus == IF dep.status = "DONE" THEN "COMPLETE" ELSE IN_PROGRESS
             st == optype \o "_" \o opstatus
         IN IF st # CREATE_COMPLETE
            THEN ReturnStatus(st)
            \* line 998: servers = self._get_deployment_servers(deployment_name)
            ELSE IF srv.raised
            THEN ProviderException("GcloudApiError")
            ELSE IF Len(srv.list) = 0
            THEN ReturnStatus(st)
            ELSE IF \E i \in DOMAIN srv.list : srv.list[i] = "STOPPING"
            THEN ReturnStatus(SUSPEND_IN_PROGRESS)
            ELSE IF \E i \in DOMAIN srv.list : srv.list[i] = "STAGING"
            THEN ReturnStatus(RESUME_IN_PROGRESS)
            ELSE IF \A i \in DOMAIN srv.list : srv.list[i] = "TERMINATED"
            THEN ReturnStatus(SUSPEND_COMPLETE)
            ELSE ReturnStatus(st)

\* GcloudProvider._get_deployment_outputs, by what the manifest's layout
\* holds: the private_key output is a str, which base64.decodebytes refuses
\* with a TypeError that is not caught
Gcloud_get_deployment_outputs(layout, m) ==
    IF layout = "none"
    THEN [kind |-> "return", outputs |-> EmptyDict]
    ELSE IF m # "ok"
    THEN ProviderException(m)
    ELSE IF layout = "empty"
    THEN [kind |-> "return", outputs |-> EmptyDict]
    ELSE Escapes("TypeError")

\* What _get_deployment_servers does when the listing answers s
ServersRead(s) == [raised |-> s # "ok", list |-> servers]

\* The deployment as deployments().get returns it
DeploymentRead ==
    [has_operation |-> operation # NoOperation,
     operationType |-> operation.operationType,
     status |-> operation.status]

\* Variant of get_stack: a deployment that is not found is reported with the
\* address it had.
GcloudGetStackResult_StaleOutputs(d, s, m) ==
    IF d = "404"
    THEN ReturnStack(DELETE_COMPLETE, [public_ip |-> PyStr("192.0.2.10")])
    ELSE IF d # "ok"
    THEN ProviderException(d)
    ELSE LET st == Gcloud_get_deployment_status(
                       DeploymentRead, ServersRead(s))
             out == Gcloud_get_deployment_outputs(deployment.layout, m)
         IN IF st.kind = "raise" THEN st
            ELSE IF out.kind = "raise" THEN out
            ELSE ReturnStack(st.status, out.outputs)

\* GcloudProvider.get_stack, given what deployments().get (d), the servers'
\* listing (s) and manifests().get (m) answer
GcloudGetStackResult(d, s, m) ==
    IF d = "404"
    THEN ReturnStack(DELETE_COMPLETE, EmptyDict)
    ELSE IF d # "ok"
    THEN ProviderException(d)
    ELSE LET st == Gcloud_get_deployment_status(
                       DeploymentRead, ServersRead(s))
             out == Gcloud_get_deployment_outputs(deployment.layout, m)
         IN IF st.kind = "raise" THEN st
            ELSE IF out.kind = "raise" THEN out
            ELSE ReturnStack(st.status, out.outputs)

\* The answers of the API's read calls
ReadResponses == {"ok", "GcloudApiError"}

\* The backend calls get_stack makes for these answers: the servers are
\* listed for a finished insert, the manifest is read, if there is one, once
\* the status is known
GcloudGetStackCalls(d, s, m) ==
    <<Call("deployments.get", d)>>
    \o (IF d = "ok" /\ operation.operationType = "insert" /\ operation.status = "DONE"
        THEN <<Call("resources.list", s)>> ELSE <<>>)
    \o (IF /\ d = "ok"
           /\ Gcloud_get_deployment_status(DeploymentRead, ServersRead(s)).kind = "return"
           /\ deployment.layout # "none"
        THEN <<Call("manifests.get", m)>> ELSE <<>>)

\* GcloudProvider.get_stack
GcloudGetStack ==
    /\ provider = "gcloud"
    /\ Enter("get_stack", TRUE, "")
    /\ \E d \in DeploymentResponses, s \in ReadResponses, m \in ReadResponses :
        /\ Finish(GcloudGetStackResult(d, s, m))
        /\ calls' = GcloudGetStackCalls(d, s, m)
    /\ fetches' = 1
    /\ UNCHANGED <<cfgVars, thread2, osVars, gcVars, awsVars, aws_state>>

\* GcloudProvider.get_stacks: a deployment whose status cannot be computed
\* is left out
GcloudGetStacks ==
    /\ provider = "gcloud"
    /\ Enter("get_stacks", TRUE, "")
    /\ \E r \in {"ok", "404", "GcloudApiError"}, s \in ReadResponses :
        /\ calls' = <<Call("deployments.list", r)>>
                    \o (IF /\ r = "ok" /\ deployment.exists
                           /\ operation.operationType = "insert"
                           /\ operation.status = "DONE"
                        THEN <<Call("resources.list", s)>> ELSE <<>>)
        /\ LET st == Gcloud_get_deployment_status(
                         DeploymentRead, ServersRead(s))
           IN Finish(CASE r = "404" -> [kind |-> "return", stacks |-> <<>>]
                       [] r = "GcloudApiError" -> ProviderException(r)
                       [] OTHER ->
                            [kind |-> "return",
                             stacks |-> IF ~deployment.exists \/ st.kind = "raise"
                                        THEN <<>>
                                        ELSE <<[name |-> "name", status |-> st.status]>>])
    /\ fetches' = 0
    /\ UNCHANGED <<cfgVars, thread2, osVars, gcVars, awsVars, aws_state>>

\* create_stack, lines 1086-1095: the environment as YAML
GcloudEnvironmentCheck(e) ==
    IF e = NoPayload \/ e = YamlError
    THEN ProviderException("Invalid environment YAML.")
    ELSE IF e.yaml # "mapping" \/ "properties" \notin e.keys
    THEN ProviderException("Invalid environment YAML.")
    ELSE NoResult

\* GcloudProvider.create_stack, lines 1074-1135
GcloudCreateStack ==
    /\ provider = "gcloud"
    /\ Enter("create_stack", TRUE, "")
    /\ IF GcloudEnvironmentCheck(environment) = NoResult
       THEN Goto("gc_create_insert", None)
       ELSE Finish(GcloudEnvironmentCheck(environment))
    /\ calls' = <<>>
    /\ fetches' = 0
    /\ UNCHANGED <<cfgVars, thread2, osVars, gcVars, awsVars, aws_state>>

\* lines 1137-1142: ds.deployments().insert
GcloudCreateInsert ==
    /\ pc = "gc_create_insert"
    /\ \E r \in InsertResponses :
        /\ calls' = Append(calls, Call("deployments.insert", r))
        /\ IF r = "ok"
           THEN /\ deployment' = Deployment("none")
                /\ operation' = Operation("insert", "PENDING", "none")
                /\ servers' = <<>>
                /\ Goto("gc_create_poll", None)
           ELSE /\ UNCHANGED gcVars
                /\ Finish(ProviderException(r))
    /\ UNCHANGED <<cfgVars, thread2, op, began, wait, key_type, count, sleeps, slept, fetches>>
    /\ UNCHANGED <<osVars, awsVars, aws_state>>

\* The message of a failed operation: errors[0]["message"], or a generic one
OperationError(o) ==
    IF o.error = "message" THEN "errors[0].message" ELSE "Error in operation."

\* Variant of the creation loop: the error of a DONE operation is not looked
\* at.
GcloudCreatePoll_IgnoresError ==
    /\ pc = "gc_create_poll"
    /\ \E r \in OperationResponses :
        /\ calls' = Append(calls, Call("operations.get", r))
        /\ IF r # "ok"
           THEN Finish(ProviderException(r))
           ELSE IF operation.status = "DONE"
           THEN Goto("gc_create_get_stack", None)
           ELSE Goto("gc_create_sleep", None)
    /\ fetches' = fetches + 1
    /\ UNCHANGED <<cfgVars, thread2, op, began, wait, key_type, count, sleeps, slept>>
    /\ UNCHANGED <<osVars, gcVars, awsVars, aws_state>>

\* lines 1145-1159: ds.operations().get of the insert operation
GcloudCreatePoll ==
    /\ pc = "gc_create_poll"
    /\ \E r \in OperationResponses :
        /\ calls' = Append(calls, Call("operations.get", r))
        /\ IF r # "ok"
           THEN Finish(ProviderException(r))
           ELSE IF operation.status = "DONE"
           THEN IF operation.error # "none"
                THEN Finish(ProviderException(OperationError(operation)))
                ELSE Goto("gc_create_get_stack", None)
           ELSE Goto("gc_create_sleep", None)
    /\ fetches' = fetches + 1
    /\ UNCHANGED <<cfgVars, thread2, op, began, wait, key_type, count, sleeps, slept>>
    /\ UNCHANGED <<osVars, gcVars, awsVars, aws_state>>

\* line 1161: the sleep of the creation loop
GcloudCreateSleep ==
    /\ pc = "gc_create_sleep"
    /\ Sleep(sleep_seconds)
    /\ Goto("gc_create_poll", None)
    /\ UNCHANGED <<cfgVars, thread2, op, began, wait, key_type, count, calls, fetches>>
    /\ UNCHANGED <<osVars, gcVars, awsVars, aws_state>>

\* line 1165: return self.get_stack(name)
GcloudCreateGetStack ==
    /\ pc = "gc_create_get_stack"
    /\ \E d \in DeploymentResponses, s \in ReadResponses, m \in ReadResponses :
        /\ Finish(GcloudGetStackResult(d, s, m))
        /\ calls' = calls \o GcloudGetStackCalls(d, s, m)
    /\ UNCHANGED <<cfgVars, thread2, op, began, wait, key_type, count, sleeps, slept, fetches>>
    /\ UNCHANGED <<osVars, gcVars, awsVars, aws_state>>

\* GcloudProvider.delete_stack, lines 1167-1182: ds.deployments().delete
GcloudDeleteStack ==
    /\ provider = "gcloud"
    /\ \E w \in BOOLEAN :
        /\ Enter("delete_stack", w, "")
        /\ \E r \in DeploymentResponses :
            /\ calls' = <<Call("deployments.delete", r)>>
            /\ IF r = "ok"
               THEN /\ operation' = Operation("delete", "PENDING", "none")
                    /\ IF w
                       THEN Goto("gc_delete_poll", DELETE_IN_PROGRESS)
                       ELSE Finish(ReturnStatus(DELETE_IN_PROGRESS))
               ELSE /\ operation' = operation
                    /\ Finish(ProviderException(r))
    /\ fetches' = 0
    /\ UNCHANGED <<cfgVars, thread2, osVars, deployment, servers, awsVars, aws_state>>

\* Variant of the delete loop: a 404 of operations().get is raised like any
\* other error of the API.
GcloudDeletePoll_NotFoundRaises ==
    /\ pc = "gc_delete_poll"
    /\ \E r \in OperationResponses :
        /\ calls' = Append(calls, Call("operations.get", r))
        /\ IF r # "ok"
           THEN Finish(ProviderException(r))
           ELSE IF operation.status = "DONE"
           THEN IF operation.error # "none"
                THEN Finish(ProviderException(OperationError(operation)))
                ELSE Finish(ReturnStatus(DELETE_COMPLETE))
           ELSE Goto("gc_delete_sleep", status)
    /\ fetches' = fetches + 1
    /\ UNCHANGED <<cfgVars, thread2, op, began, wait, key_type, count, sleeps, slept>>
    /\ UNCHANGED <<osVars, gcVars, awsVars, aws_state>>

\* lines 1183-1208: ds.operations().get of the delete operation
GcloudDeletePoll ==
    /\ pc = "gc_delete_poll"
    /\ \E r \in OperationResponses :
        /\ calls' = Append(calls, Call("operations.get", r))
        /\ IF r = "404"
           THEN Finish(ReturnStatus(DELETE_COMPLETE))
           ELSE IF r # "ok"
           THEN Finish(ProviderException(r))
           ELSE IF operation.status = "DONE"
           THEN IF operation.error # "none"
                THEN Finish(ProviderException(OperationError(operation)))
                ELSE Finish(ReturnStatus(DELETE_COMPLETE))
           ELSE Goto("gc_delete_sleep", status)
    /\ fetches' = fetches + 1
    /\ UNCHANGED <<cfgVars, thread2, op, began, wait, key_type, count, sleeps, slept>>
    /\ UNCHANGED <<osVars, gcVars, awsVars, aws_state>>

\* line 1210: the sleep of the delete loop
GcloudDeleteSleep ==
    /\ pc = "gc_delete_sleep"
    /\ Sleep(sleep_seconds)
    /\ Goto("gc_delete_poll", status)
    /\ UNCHANGED <<cfgVars, thread2, op, began, wait, key_type, count, calls, fetches>>
    /\ UNCHANGED <<osVars, gcVars, awsVars, aws_state>>

\* The first server whose status is outside ok, or Len(srv) + 1
FirstOutside(srv, ok) ==
    IF \E i \in DOMAIN srv : srv[i] \notin ok
    THEN CHOOSE i \in DOMAIN srv :
             /\ srv[i] \notin ok
             /\ \A j \in 1..(i - 1) : srv[j] \in ok
    ELSE Len(srv) + 1

\* Variant of the sweep: the call goes to each of the first n servers,
\* whatever its status.
Sweep_AnyStatus(srv, n, from, to) ==
    [i \in DOMAIN srv |-> IF i <= n THEN to ELSE srv[i]]

\* The servers after the first n of them in status from were sent to status to
Sweep(srv, n, from, to) ==
    [i \in DOMAIN srv |-> IF i <= n /\ srv[i] = from THEN to ELSE srv[i]]

\* The calls of such a sweep: one call for each of the first n in status from
SweepCalls(srv, n, from, call) ==
    LET hit == {i \in 1..n : srv[i] = from}
    IN [i \in 1..Cardinality(hit) |-> call]

\* The for loop of suspend_stack (lines 1223-1241) and of resume_stack (lines
\* 1265-1283): servers in status from are sent call, servers in a status
\* outside ok raise, and a call may fail. Yields the servers and calls after
\* the loop and, if it raised, the exception (else NoResult).
SweepOutcomes(srv, from, to, ok, call) ==
    LET bad == FirstOutside(srv, ok)
        faulty == {i \in 1..(bad - 1) : srv[i] = from}
    IN {[servers |-> Sweep(srv, f - 1, from, to),
         calls |-> Append(SweepCalls(srv, f - 1, from, call),
                          Call(call, "GcloudApiError")),
         raised |-> ProviderException("GcloudApiError")] : f \in faulty}
       \cup
       {[servers |-> Sweep(srv, bad - 1, from, to),
         calls |-> SweepCalls(srv, bad - 1, from, call),
         raised |-> IF bad <= Len(srv)
                    THEN ProviderException("Cannot stop machine with status")
                    ELSE NoResult]}

\* GcloudProvider.suspend_stack, lines 1214-1246
GcloudSuspendStack ==
    /\ provider = "gcloud"
    /\ \E w \in BOOLEAN :
        /\ Enter("suspend_stack", w, "")
        /\ \E r \in DeploymentResponses :
            IF r # "ok"
            THEN /\ Finish(ProviderException(r))
                 /\ calls' = <<Call("resources.list", r)>>
                 /\ servers' = servers
            ELSE \E o \in SweepOutcomes(servers, "RUNNING", "STOPPING",
                                        {"RUNNING", "STOPPING", "TERMINATED"},
                                        "instances.stop") :
                 /\ servers' = o.servers
                 /\ calls' = <<"resources.list">> \o o.calls
                 /\ IF o.raised # NoResult
                    THEN Finish(o.raised)
                    ELSE IF w
                    THEN Goto("gc_suspend_sleep", SUSPEND_IN_PROGRESS)
                    ELSE Finish(ReturnStatus(SUSPEND_IN_PROGRESS))
    /\ fetches' = 0
    /\ UNCHANGED <<cfgVars, thread2, osVars, deployment, operation, awsVars, aws_state>>

\* line 1248: the sleep of the suspend loop
GcloudSuspendSleep ==
    /\ pc = "gc_suspend_sleep"
    /\ Sleep(sleep_seconds)
    /\ Goto("gc_suspend_poll", status)
    /\ UNCHANGED <<cfgVars, thread2, op, began, wait, key_type, count, calls, fetches>>
    /\ UNCHANGED <<osVars, gcVars, awsVars, aws_state>>

\* lines 1249-1254: the servers' listing of the suspend loop
GcloudSuspendPoll ==
    /\ pc = "gc_suspend_poll"
    /\ \E r \in DeploymentResponses :
        /\ calls' = Append(calls, Call("resources.list", r))
        /\ IF r # "ok"
           THEN Finish(ProviderException(r))
           ELSE IF \A i \in DOMAIN servers : servers[i] = "TERMINATED"
           THEN Finish(ReturnStatus(SUSPEND_COMPLETE))
           ELSE Goto("gc_suspend_sleep", status)
    /\ fetches' = fetches + 1
    /\ UNCHANGED <<cfgVars, thread2, op, began, wait, key_type, count, sleeps, slept>>
    /\ UNCHANGED <<osVars, gcVars, awsVars, aws_state>>

\* GcloudProvider.resume_stack, lines 1256-1283
GcloudResumeStack ==
    /\ provider = "gcloud"
    /\ Enter("resume_stack", TRUE, "")
    /\ \E r \in DeploymentResponses :
        IF r # "ok"
        THEN /\ Finish(ProviderException(r))
             /\ calls' = <<Call("resources.list", r)>>
             /\ servers' = servers
        ELSE \E o \in SweepOutcomes(servers, "TERMINATED", "PROVISIONING",
                                    {"TERMINATED", "RUNNING", "STAGING"},
                                    "instances.start") :
             /\ servers' = o.servers
             /\ calls' = <<"resources.list">> \o o.calls
             /\ IF o.raised # NoResult
                THEN Finish(o.raised)
                ELSE Goto("gc_resume_poll", None)
    /\ fetches' = 0
    /\ UNCHANGED <<cfgVars, thread2, osVars, deployment, operation, awsVars, aws_state>>

\* lines 1286-1289: the servers' listing of the resume loop
GcloudResumePoll ==
    /\ pc = "gc_resume_poll"
    /\ \E r \in DeploymentResponses :
        /\ calls' = Append(calls, Call("resources.list", r))
        /\ IF r # "ok"
           THEN Finish(ProviderException(r))
           ELSE IF \A i \in DOMAIN servers : servers[i] = "RUNNING"
           THEN Goto("gc_resume_get_stack", None)
           ELSE Goto("gc_resume_sleep", None)
    /\ fetches' = fetches + 1
    /\ UNCHANGED <<cfgVars, thread2, op, began, wait, key_type, count, sleeps, slept>>
    /\ UNCHANGED <<osVars, gcVars, awsVars, aws_state>>

\* line 1291: the sleep of the resume loop
GcloudResumeSleep ==
    /\ pc = "gc_resume_sleep"
    /\ Sleep(sleep_seconds)
    /\ Goto("gc_resume_poll", None)
    /\ UNCHANGED <<cfgVars, thread2, op, began, wait, key_type, count, calls, fetches>>
    /\ UNCHANGED <<osVars, gcVars, awsVars, aws_state>>

\* Variant of the end of resume_stack: the resume reports its own completion
\* with the outputs of get_stack, as the OpenStack driver does.
GcloudResumeGetStack_OwnStatus ==
    /\ pc = "gc_resume_get_stack"
    /\ \E d \in DeploymentResponses, s \in ReadResponses, m \in ReadResponses :
        /\ LET r == GcloudGetStackResult(d, s, m)
           IN Finish(IF r.kind = "return"
                     THEN ReturnStack(RESUME_COMPLETE, r.outputs)
                     ELSE r)
        /\ calls' = calls \o GcloudGetStackCalls(d, s, m)
    /\ UNCHANGED <<cfgVars, thread2, op, began, wait, key_type, count, sleeps, slept, fetches>>
    /\ UNCHANGED <<osVars, gcVars, awsVars, aws_state>>

\* line 1293: return self.get_stack(name)
GcloudResumeGetStack ==
    /\ pc = "gc_resume_get_stack"
    /\ \E d \in DeploymentResponses, s \in ReadResponses, m \in ReadResponses :
        /\ Finish(GcloudGetStackResult(d, s, m))
        /\ calls' = calls \o GcloudGetStackCalls(d, s, m)
    /\ UNCHANGED <<cfgVars, thread2, op, began, wait, key_type, count, sleeps, slept, fetches>>
    /\ UNCHANGED <<osVars, gcVars, awsVars, aws_state>>

NextGcloud ==
    \/ GcOperationProgress \/ GcServerProgress \/ GcOtherActor
    \/ GcloudGetStack \/ GcloudGetStacks
    \/ GcloudCreateStack \/ GcloudCreateInsert \/ GcloudCreatePoll
    \/ GcloudCreateSleep \/ GcloudCreateGetStack
    \/ GcloudDeleteStack \/ GcloudDeletePoll \/ GcloudDeleteSleep
    \/ GcloudSuspendStack \/ GcloudSuspendSleep \/ GcloudSuspendPoll
    \/ GcloudResumeStack \/ GcloudResumePoll \/ GcloudResumeSleep
    \/ GcloudResumeGetStack

SpecGcloud == InitOf("gcloud") /\ [][NextGcloud \/ set_template \/ set_environment]_vars

(***************************************************************************)
(* Google Cloud: a second thread.  The driver takes no lock, so a second   *)
(* thread may run resume_stack on the same name while the first thread is  *)
(* inside an operation.  thread2 is the position of that resume_stack; its *)
(* calls reach the same servers.                                           *)
(***************************************************************************)
\* Variant of the second thread's resume_stack: it starts only while the
\* first thread is outside every operation, as under a lock on the name.
T2ResumeStack_Locked ==
    /\ provider = "gcloud"
    /\ pc = "idle"
    /\ thread2 = "idle"
    /\ \E r \in DeploymentResponses :
        IF r # "ok"
        THEN /\ thread2' = "raise"
             /\ servers' = servers
        ELSE \E o \in SweepOutcomes(servers, "TERMINATED", "PROVISIONING",
                                    {"TERMINATED", "RUNNING", "STAGING"},
                                    "instances.start") :
             /\ servers' = o.servers
             /\ thread2' = IF o.raised # NoResult THEN "raise" ELSE "gc_resume_poll"
    /\ UNCHANGED <<cfgVars, drvVars, osVars, deployment, operation, awsVars, aws_state>>

\* GcloudProvider.resume_stack in the second thread, lines 1256-1283
T2ResumeStack ==
    /\ provider = "gcloud"
    /\ thread2 = "idle"
    /\ \E r \in DeploymentResponses :
        IF r # "ok"
        THEN /\ thread2' = "raise"
             /\ servers' = servers
        ELSE \E o \in SweepOutcomes(servers, "TERMINATED", "PROVISIONING",
                                    {"TERMINATED", "RUNNING", "STAGING"},
                                    "instances.start") :
             /\ servers' = o.servers
             /\ thread2' = IF o.raised # NoResult THEN "raise" ELSE "gc_resume_poll"
    /\ UNCHANGED <<cfgVars, drvVars, osVars, deployment, operation, awsVars, aws_state>>

\* lines 1286-1291 in the second thread: the servers' listing of the resume
\* loop, and the sleep when not every server is RUNNING
T2ResumePoll ==
    /\ thread2 = "gc_resume_poll"
    /\ \E r \in DeploymentResponses :
        thread2' = IF r # "ok"
                   THEN "raise"
                   ELSE IF \A i \in DOMAIN servers : servers[i] = "RUNNING"
                   THEN "gc_resume_get_stack"
                   ELSE "gc_resume_poll"
    /\ UNCHANGED <<cfgVars, drvVars, osVars, gcVars, awsVars, aws_state>>

\* line 1293 in the second thread: return self.get_stack(name)
T2ResumeGetStack ==
    /\ thread2 = "gc_resume_get_stack"
    /\ \E d \in DeploymentResponses, s \in ReadResponses, m \in ReadResponses :
        thread2' = GcloudGetStackResult(d, s, m).kind
    /\ UNCHANGED <<cfgVars, drvVars, osVars, gcVars, awsVars, aws_state>>

\* A deployment that was created, with its servers running, and a driver that
\* has run nothing yet.
InitThreads ==
    /\ config = ConfigOf("gcloud")
    /\ InitDriver("gcloud")
    /\ InitOsBackend
    /\ InitAwsBackend
    /\ aws_state = 0
    /\ \E layout \in {"empty", "outputs"} : deployment = Deployment(layout)
    /\ operation = Operation("insert", "DONE", "none")
    /\ \E n \in 1..MaxServers : servers = [i \in 1..n |-> "RUNNING"]

\* The first thread suspends the stack, the second resumes it, and the servers
\* follow the calls they were sent.
SpecThreads ==
    InitThreads /\ [][\/ GcloudSuspendStack \/ GcloudSuspendSleep \/ GcloudSuspendPoll
                      \/ GcServerProgress
                      \/ T2ResumeStack \/ T2ResumePoll \/ T2ResumeGetStack]_vars

(***************************************************************************)
(* The poll loops under fairness.  A thread that is inside an operation    *)
(* goes on: time.sleep returns and every call of an API is answered, so    *)
(* the driver's next step is taken whenever one is possible.  Nothing is   *)
(* assumed of the backends.                                                *)
(***************************************************************************)
\* The operations that poll, with what the backends do meanwhile.
SpecLive ==
    /\ \E p \in {"openstack", "gcloud"} : InitOf(p)
    /\ [][\/ set_template \/ set_environment
          \/ HeatEngine \/ HeatProgress \/ HeatPurge \/ HeatOtherActor
          \/ OsCreateStack \/ OsCreateKeypair \/ OsCreateSubmit
          \/ OsCreateSleep0 \/ OsCreateGet0 \/ OsCreateSleep \/ OsCreateGet
          \/ OsResumeStack \/ OsResumeSleep \/ OsResumeGet
          \/ OsSuspendStack \/ OsSuspendSleep \/ OsSuspendGet
          \/ OsDeleteStack \/ OsDeleteSubmit \/ OsDeleteSleep \/ OsDeleteGet
          \/ GcOperationProgress \/ GcServerProgress \/ GcOtherActor
          \/ GcloudCreateStack \/ GcloudCreateInsert \/ GcloudCreatePoll
          \/ GcloudCreateSleep \/ GcloudCreateGetStack
          \/ GcloudDeleteStack \/ GcloudDeletePoll \/ GcloudDeleteSleep
          \/ GcloudSuspendStack \/ GcloudSuspendSleep \/ GcloudSuspendPoll
          \/ GcloudResumeStack \/ GcloudResumePoll \/ GcloudResumeSleep
          \/ GcloudResumeGetStack]_vars
    /\ WF_vars(pc # "idle" /\ (NextOpenstack \/ NextGcloud) /\ drvVars' # drvVars)

(***************************************************************************)
(* The three drivers behind Provider.init.                                 *)
(***************************************************************************)
Init == \E type \in ConfigTypes : InitOf(ProviderInit(type))

Next ==
    \/ set_template \/ set_environment
    \/ NextOpenstack
    \/ NextGcloud
    \/ NextAws

Spec == Init /\ [][Next]_vars

(***************************************************************************)
(* The status normalizers as functions of their input.                     *)
(***************************************************************************)
\* Operation types and statuses handed to the Google Cloud normalizer; the
\* last of each is one the normalizer does not know.
NormalizeTypes == {"insert", "update", "delete", "rollback"}
NormalizeStatuses == {"DONE", "PENDING", "RUNNING", "ABORTING"}

\* The lists of at most n server statuses
ServerLists(n) == UNION {[1..k -> ServerStatuses] : k \in 0..n}

InitNormalize ==
    /\ \E p \in {"aws", "gcloud"} : config = ConfigOf(p) /\ InitDriver(p)
    /\ InitOsBackend
    /\ InitAwsBackend
    /\ IF provider = "aws"
       THEN /\ aws_state \in -1..MaxAwsState
            /\ InitGcBackend
       ELSE /\ aws_state = 0
            /\ deployment = Deployment("none")
            /\ operation \in {NoOperation}
                    \cup {Operation(t, st, "none") :
                             t \in NormalizeTypes, st \in NormalizeStatuses}
            /\ servers \in ServerLists(MaxServers)

\* AwsProvider._get_deployment_status applied to aws_state
AwsNormalize ==
    /\ provider = "aws"
    /\ Enter("_get_deployment_status", TRUE, "")
    /\ Finish(Aws_get_deployment_status(aws_state))
    /\ calls' = <<>>
    /\ fetches' = 0
    /\ UNCHANGED <<cfgVars, thread2, osVars, gcVars, awsVars, aws_state>>

\* GcloudProvider._get_deployment_status applied to the deployment; calls
\* holds what the servers' listing answers if the function asks for it
GcloudNormalize ==
    /\ provider = "gcloud"
    /\ Enter("_get_deployment_status", TRUE, "")
    /\ \E s \in ReadResponses :
        /\ Finish(Gcloud_get_deployment_status(DeploymentRead, ServersRead(s)))
        /\ calls' = <<"resources.list", s>>
    /\ fetches' = 0
    /\ UNCHANGED <<cfgVars, thread2, osVars, gcVars, awsVars, aws_state>>

SpecNormalize == InitNormalize /\ [][AwsNormalize \/ GcloudNormalize]_vars

(***************************************************************************)
(* The facade: Provider.init for every configuration, and the setters.     *)
(***************************************************************************)
InitFacade ==
    /\ config \in Configs
    /\ InitDriver(Provider_init(config))
    /\ InitOsBackend
    /\ InitGcBackend
    /\ InitAwsBackend
    /\ aws_state = 0

SpecFacade ==
    InitFacade /\ [][set_capacity \/ set_template \/ set_environment]_vars

(***************************************************************************)
(* Properties of the drivers.                                              *)
(***************************************************************************)
\* The operation o has ended: it returned or raised, and no other began.
Ended(o) == pc = "idle" /\ op = o

\* The exceptions a backend's API raises for a failure of its own, as
\* opposed to its answer that the resource does not exist.
ApiFaults == {"HTTPException", "GcloudApiError", "ClientError", "ClientException"}

\* The operation ended because a call to the backend's API failed.
ApiFailed == result.kind = "raise" /\ result.msg \in ApiFaults

\* C1: get_stack on a name with no backing resource (Heat answers not-found,
\* Deployment Manager answers 404, EC2 lists no instance of the key name)
\* returns exactly DELETE_COMPLETE with empty outputs and does not raise,
\* in each of the three backends.  get_stack leaves the backend as it is,
\* so the backend of the state in which it ended is the one it read.
C1_GetStackAbsent ==
    (Ended("get_stack") /\ began.absent /\ ~ApiFailed)
        => result = [kind |-> "return", status |-> "DELETE_COMPLETE", outputs |-> <<>>]

\* get_stack has answered for a name of which EC2 lists no instance.
C1_Witness ==
    /\ Ended("get_stack")
    /\ began.absent
    /\ provider = "aws"
    /\ calls = <<"instances.filter">>
    /\ result = ReturnStack(DELETE_COMPLETE, EmptyDict)

\* The statuses the claims' vocabulary is made of: an action and a state, or
\* the bare IN_PROGRESS.
CommonVocabulary ==
    {a \o "_" \o st : a \in {"CREATE", "DELETE", "SUSPEND", "RESUME"},
                     st \in {"IN_PROGRESS", "COMPLETE", "FAILED"}}
        \cup {"IN_PROGRESS"}

\* The statuses the AWS normalizer returns
AwsStatuses ==
    {"IN_PROGRESS", "CREATE_COMPLETE", "DELETE_IN_PROGRESS", "DELETE_COMPLETE",
     "SUSPEND_IN_PROGRESS", "SUSPEND_COMPLETE"}

\* The statuses the Google Cloud normalizer returns
GcloudStatuses ==
    {a \o "_" \o st : a \in {"CREATE", "UPDATE", "DELETE"},
                     st \in {"IN_PROGRESS", "COMPLETE"}}
        \cup {"SUSPEND_IN_PROGRESS", "RESUME_IN_PROGRESS", "SUSPEND_COMPLETE"}

\* The statuses of the stacks a get_stacks call returned
ListedStatuses == {result.stacks[i].status : i \in DOMAIN result.stacks}

C2_Normalized ==
    /\ (Ended("get_stack") /\ result.kind = "return" /\ provider = "aws")
          => result.status \in AwsStatuses
    /\ (Ended("get_stack") /\ result.kind = "return" /\ provider = "gcloud")
          => result.status \in GcloudStatuses \cup {"DELETE_COMPLETE"}
    /\ (Ended("get_stacks") /\ result.kind = "return" /\ provider = "aws")
          => ListedStatuses \subseteq AwsStatuses
    /\ (Ended("get_stacks") /\ result.kind = "return" /\ provider = "gcloud")
          => ListedStatuses \subseteq GcloudStatuses
    /\ (Ended("get_stack") /\ provider = "openstack" /\ ~began.absent)
          => (result.kind = "return" \/ ApiFailed)

\* A step in which OpenStack's get_stack or get_stacks returns: the status
\* is the stack_status Heat holds, unchanged.
C2_PassThrough ==
    (/\ provider = "openstack"
     /\ pc = "idle" /\ pc' = "idle"
     /\ op' \in {"get_stack", "get_stacks"}
     /\ result'.kind = "return"
     /\ heat_stack # NoStack
     /\ UNCHANGED osVars)
    => IF op' = "get_stack"
       THEN result'.status = heat_stack.stack_status
       ELSE {result'.stacks[i].status : i \in DOMAIN result'.stacks}
                \subseteq {heat_stack.stack_status}

AwsTable(code) ==
    CASE code = 0 -> "IN_PROGRESS"
      [] code = 16 -> "CREATE_COMPLETE"
      [] code = 32 -> "DELETE_IN_PROGRESS"
      [] code = 48 -> "DELETE_COMPLETE"
      [] code = 64 -> "SUSPEND_IN_PROGRESS"
      [] code = 80 -> "SUSPEND_COMPLETE"
      [] OTHER -> None

\* C3: the AWS normalizer maps the instance state code 0 to IN_PROGRESS, 16
\* to CREATE_COMPLETE, 32 to DELETE_IN_PROGRESS, 48 to DELETE_COMPLETE, 64 to
\* SUSPEND_IN_PROGRESS and 80 to SUSPEND_COMPLETE, and raises
\* ProviderException for every other code.
C3_AwsNormalizer ==
    (Ended("_get_deployment_status") /\ provider = "aws") =>
        IF AwsTable(aws_state) # None
        THEN result = [kind |-> "return", status |-> AwsTable(aws_state)]
        ELSE result.kind = "raise" /\ result.exc = "ProviderException"

\* The normalizer has answered for the code 32.
C3_Witness ==
    /\ Ended("_get_deployment_status")
    /\ provider = "aws"
    /\ aws_state = 32
    /\ result = ReturnStatus(DELETE_IN_PROGRESS)

\* The first stage of the Google Cloud normalizer: the status for an
\* operation type and status, None where it raises
GcloudStageOne(type, st) ==
    IF type \notin {"insert", "update", "delete"} \/ st \notin {"DONE", "PENDING", "RUNNING"}
    THEN None
    ELSE (CASE type = "insert" -> "CREATE"
            [] type = "update" -> "UPDATE"
            [] OTHER -> "DELETE")
         \o (IF st = "DONE" THEN "_COMPLETE" ELSE "_IN_PROGRESS")

\* The second stage: the status for a non-empty list of server statuses
GcloudStageTwo(list) ==
    IF \E i \in DOMAIN list : list[i] = "STOPPING" THEN "SUSPEND_IN_PROGRESS"
    ELSE IF \E i \in DOMAIN list : list[i] = "STAGING" THEN "RESUME_IN_PROGRESS"
    ELSE IF \A i \in DOMAIN list : list[i] = "TERMINATED" THEN "SUSPEND_COMPLETE"
    ELSE "CREATE_COMPLETE"

\* C4: the Google Cloud normalizer first maps the operation type (insert,
\* update, delete to CREATE, UPDATE, DELETE) and status (DONE to COMPLETE,
\* PENDING and RUNNING to IN_PROGRESS), raising ProviderException for any
\* other type or status; only when that gives CREATE_COMPLETE and the
\* deployment has at least one server is it refined: SUSPEND_IN_PROGRESS if
\* any server is STOPPING, else RESUME_IN_PROGRESS if any is STAGING, else
\* SUSPEND_COMPLETE if all are TERMINATED, else CREATE_COMPLETE.  (calls
\* holds what the servers' listing answers; where it fails, so does the
\* normalizer.)
C4_GcloudNormalizer ==
    (Ended("_get_deployment_status") /\ provider = "gcloud") =>
        LET one == GcloudStageOne(operation.operationType, operation.status)
        IN IF one = None
           THEN result.kind = "raise" /\ result.exc = "ProviderException"
           ELSE IF one # "CREATE_COMPLETE"
           THEN result = [kind |-> "return", status |-> one]
           ELSE IF calls[2] # "ok"
           THEN result.kind = "raise"
           ELSE IF servers = <<>>
           THEN result = [kind |-> "return", status |-> one]
           ELSE result = [kind |-> "return", status |-> GcloudStageTwo(servers)]

\* A finished insert with one server STAGING and one STOPPING: the
\* STOPPING one decides.
C4_Witness ==
    /\ Ended("_get_deployment_status")
    /\ provider = "gcloud"
    /\ operation = Operation("insert", "DONE", "none")
    /\ servers = <<"STAGING", "STOPPING">>
    /\ result = ReturnStatus(SUSPEND_IN_PROGRESS)

\* C5: delete_stack is idempotent in every backend: once a delete_stack of
\* the name has completed with DELETE_COMPLETE, a further delete_stack of it
\* returns and does not raise (a failure of the backend's API set aside).
C5_DeleteIdempotent ==
    (Ended("delete_stack") /\ began.after_delete /\ ~ApiFailed)
        => result.kind = "return"

\* C6: suspend_stack, resume_stack and delete_stack on a stack that does not
\* exist resolve to DELETE_COMPLETE and do not raise (a failure of the
\* backend's API set aside).
C6_AbsentResolves ==
    (/\ pc = "idle"
     /\ op \in {"suspend_stack", "resume_stack", "delete_stack"}
     /\ began.absent
     /\ ~ApiFailed)
        => (result.kind = "return" /\ result.status = "DELETE_COMPLETE")

SleepsFirst ==
    \/ provider = "openstack"
         /\ op \in {"create_stack", "suspend_stack", "resume_stack", "delete_stack"}
    \/ provider = "gcloud" /\ op = "suspend_stack"
FetchesFirst ==
    provider = "gcloud" /\ op \in {"create_stack", "delete_stack", "resume_stack"}

\* A polling operation has ended after at least one fetch of its loop.
PolledAndEnded == pc = "idle" /\ wait /\ fetches >= 1

\* C8 as stated: a polling operation that fetched N non-terminal statuses
\* and then a terminal one, N + 1 fetches in all, and returned, has slept
\* exactly N times.
C8_Original ==
    (PolledAndEnded /\ (SleepsFirst \/ FetchesFirst) /\ result.kind = "return")
        => sleeps = fetches - 1

\* The statuses with which a polling loop ends and its operation returns
TerminalStatus(st) ==
    CASE provider = "openstack" /\ op = "create_stack" ->
             ~Contains("IN_PROGRESS", st) /\ ~Contains("FAILED", st)
      [] provider = "openstack" /\ op = "suspend_stack" ->
             st \in {"SUSPEND_COMPLETE", "DELETE_COMPLETE"}
      [] provider = "openstack" /\ op = "resume_stack" -> st = "RESUME_COMPLETE"
      [] provider = "gcloud" /\ op = "suspend_stack" -> st = "SUSPEND_COMPLETE"
      [] op = "delete_stack" -> st = "DELETE_COMPLETE"
      [] OTHER -> TRUE

\* C8, amended: Google Cloud's create, delete and resume fetch first and
\* sleep only to go on: N non-terminal fetches and a terminal one make
\* exactly N sleeps.  OpenStack's create, suspend, resume and delete and
\* Google Cloud's suspend sleep before every fetch, the first one included:
\* they make exactly N + 1 sleeps.  Every sleep lasts the configured
\* interval, and what the operation returns is a terminal status.
C8_SleepsPerFetch ==
    /\ (PolledAndEnded /\ FetchesFirst) => sleeps = fetches - 1
    /\ (PolledAndEnded /\ SleepsFirst) => sleeps = fetches
    /\ (SleepsFirst \/ FetchesFirst) => slept = sleeps * 10
    /\ (PolledAndEnded /\ (SleepsFirst \/ FetchesFirst) /\ result.kind = "return")
          => TerminalStatus(result.status)

\* OpenStack's suspend_stack saw one status that was not terminal, then
\* SUSPEND_COMPLETE, and slept twice.
C8_Witness ==
    /\ Ended("suspend_stack")
    /\ provider = "openstack"
    /\ fetches = 2
    /\ sleeps = 2
    /\ result = ReturnStatus(SUSPEND_COMPLETE)

\* The positions of the OpenStack driver at which it fetches the status
OsFetchPcs ==
    {"os_create_get0", "os_create_get", "os_resume_get", "os_suspend_get",
     "os_delete_get"}

\* The driver fetches the status of a stack whose status contains FAILED:
\* the operation ends there, raising ProviderException, without a sleep.
C9_FetchOfFailed ==
    (/\ pc \in OsFetchPcs
     /\ pc' # pc
     /\ heat_stack # NoStack
     /\ Contains("FAILED", heat_stack.stack_status))
    => (/\ pc' = "idle"
        /\ result'.kind = "raise"
        /\ result'.exc = "ProviderException"
        /\ sleeps' = sleeps
        /\ fetches' = fetches + 1)

\* C9: in the OpenStack create, suspend, resume and delete poll loops, once
\* a fetched status contains the substring FAILED the operation raises
\* ProviderException, with no further sleep and no further fetch: no
\* position of a loop is ever held with such a status.
C9_FailedEndsLoop ==
    /\ [][C9_FetchOfFailed]_vars
    /\ [](pc \in OsFetchPcs \cup {"os_create_sleep", "os_resume_sleep",
                                  "os_suspend_sleep", "os_delete_sleep"}
             => ~Contains("FAILED", status))

\* suspend_stack has raised for a failure seen at its second fetch.
C9_Witness ==
    /\ Ended("suspend_stack")
    /\ provider = "openstack"
    /\ fetches = 2
    /\ sleeps = 2
    /\ result = ProviderException("Failure suspending OpenStack Heat stack.")

\* The outputs of the result hold a public_ip
HasPublicIp == Truthy(DictGet(result.outputs, "public_ip"))

\* The exception AWS create_stack gives up with
AwsTimeout ==
    [kind |-> "raise", exc |-> "ProviderException",
     msg |-> "Could not determine private IP of instance within reasonable time"]

\* C10: AWS create_stack, after launching the instance, polls get_stack
\* with a sleep of 5 seconds after each attempt without a public_ip; it
\* raises the ProviderException of the timeout after exactly 6 attempts (and
\* 6 sleeps), and when attempt k <= 6 reports a public_ip it returns that
\* attempt's result at once.
C10_AwsCreatePoll ==
    (provider = "aws" /\ op = "create_stack") =>
        /\ slept = 5 * sleeps
        /\ fetches <= 6
        /\ pc = "aws_create_get" => (fetches = sleeps /\ fetches < 6)
        /\ pc = "aws_create_sleep" => (fetches = sleeps + 1 /\ result.kind = "none")
        /\ (pc = "idle" /\ result = AwsTimeout) => (fetches = 6 /\ sleeps = 6)
        /\ (pc = "idle" /\ result.kind = "return")
              => (HasPublicIp /\ fetches = sleeps + 1)
        /\ (pc = "idle" /\ fetches >= 1 /\ sleeps = fetches) => result = AwsTimeout

\* create_stack has given up after six attempts.
C10_Witness ==
    /\ Ended("create_stack")
    /\ provider = "aws"
    /\ result = AwsTimeout
    /\ fetches = 6
    /\ slept = 30

\* A call of the log is a reboot of a server
IsReboot(c) == Len(c) > 15 /\ SubSeq(c, 1, 15) = "servers.reboot:"

\* The reboots an operation has issued, in the order it issued them
Reboots == SelectSeq(calls, IsReboot)

\* The reboots asked for by a reboot_on_resume list, in its order
HardReboots(list) == [i \in DOMAIN list |-> "servers.reboot:" \o list[i] \o ":HARD"]

\* The reboot_on_resume list of the outputs resume_stack returned, empty
\* when the outputs hold none
ReturnedRebootList ==
    IF "reboot_on_resume" \in DOMAIN result.outputs
          /\ result.outputs["reboot_on_resume"].t = "list"
    THEN result.outputs["reboot_on_resume"].v
    ELSE <<>>

\* C11: OpenStack resume_stack issues a HARD reboot for every server of the
\* reboot_on_resume list of the stack fetched at RESUME_COMPLETE, exactly
\* once and in list order; it issues no reboot while it polls, that is
\* before RESUME_COMPLETE has been observed, nor when the resume ends in a
\* FAILED status or in any other failure of the poll.  (Where a reboot
\* itself fails, the reboots issued are the list up to the failing one.)
C11_RebootOnResume ==
    (provider = "openstack" /\ op = "resume_stack") =>
        /\ pc # "idle" => Reboots = <<>>
        /\ (pc = "idle" /\ result.kind = "return") =>
              /\ result.status = "RESUME_COMPLETE"
              /\ Reboots = HardReboots(ReturnedRebootList)
              /\ calls[Len(calls) - Len(Reboots)] = "stacks.get"
        /\ (pc = "idle" /\ result.kind = "raise" /\ result.msg # "ClientException")
              => Reboots = <<>>
        /\ (pc = "idle" /\ result.kind = "raise" /\ result.msg = "ClientException")
              => \E n \in 1..2 :
                    LET all == HardReboots(<<"srv-1", "srv-2">>)
                    IN Reboots = Append(SubSeq(all, 1, n - 1),
                                        all[n] \o "!ClientException")

\* resume_stack has returned after rebooting srv-1 and then srv-2.
C11_Witness ==
    /\ Ended("resume_stack")
    /\ provider = "openstack"
    /\ result.kind = "return"
    /\ Reboots = <<"servers.reboot:srv-1:HARD", "servers.reboot:srv-2:HARD">>

\* An entry of the call log for a call that failed.
IsFailed(c) == \E i \in 1..Len(c) : SubSeq(c, i, i) = "!"

\* The operation has ended on a backend call that failed.
EndedOnFailedCall ==
    /\ pc = "idle"
    /\ calls # <<>>
    /\ IsFailed(calls[Len(calls)])

\* C12: an operation that raises because a call of the backend's API failed
\* raises ProviderException; no exception of an SDK reaches the caller.
C12_FailuresWrapped ==
    (EndedOnFailedCall /\ result.kind = "raise") => result.exc = "ProviderException"

\* The answers by which a backend says that something does not exist.
NotFoundAnswers == {"HTTPNotFound", "NotFound", "404", "ParameterNotFound"}

\* An entry of the call log for a call that failed with something else than
\* a not-found answer.
IsFault(c) ==
    /\ IsFailed(c)
    /\ \A a \in NotFoundAnswers :
          ~(Len(c) > Len(a) /\ SubSeq(c, Len(c) - Len(a), Len(c)) = "!" \o a)

\* C13: a backend call that fails with anything but a not-found answer is
\* the last backend call of its operation, and the operation ends by raising.
C13_FaultEndsOperation ==
    \A i \in DOMAIN calls :
        IsFault(calls[i]) => /\ i = Len(calls)
                             /\ pc = "idle"
                             /\ result.kind = "raise"

\* C14: in OpenStack's create_stack, a status fetch that Heat answers with
\* not-found ends the operation with ProviderException: the first fetch with
\* Heat's error as the message, a fetch of the loop with the message that the
\* stack disappeared.  The operation does not return, so it never reports
\* DELETE_COMPLETE for it.
C14_CreateNotFoundRaises ==
    (/\ provider = "openstack" /\ op = "create_stack"
     /\ calls # <<>> /\ calls[Len(calls)] = "stacks.get!HTTPNotFound")
    => /\ pc = "idle"
       /\ result.kind = "raise"
       /\ result.exc = "ProviderException"
       /\ result.msg = IF fetches = 1
                       THEN "HTTPNotFound"
                       ELSE "OpenStack Heat stack disappeared during creation."

\* create_stack has ended on a fetch of its loop that found the stack gone.
C14_Witness ==
    /\ Ended("create_stack")
    /\ provider = "openstack"
    /\ fetches > 1
    /\ calls[Len(calls)] = "stacks.get!HTTPNotFound"
    /\ result.kind = "raise"

\* C15: create_stack on a provider whose template or whose environment was
\* never set makes no call of the backend and ends by raising.
C15_UnsetConfigFails ==
    (op = "create_stack" /\ (template = NoPayload \/ environment = NoPayload))
    => /\ calls = <<>>
       /\ pc = "idle" => result.kind = "raise"

\* The instances that carry no 'deleted' tag.
LiveInstances(instances) == {i \in DOMAIN instances : ~instances[i].deleted}

\* A stack of the name exists in the backend: a Heat stack, a deployment, an
\* instance that is not tagged as deleted.
StackExists ==
    CASE provider = "openstack" -> heat_stack.stack_status # None
      [] provider = "gcloud" -> deployment.exists
      [] OTHER -> LiveInstances(ec2_instances) # {}

\* A step that is a get_stack which returns: it starts and ends with no
\* operation in progress and leaves the backend as it is.
GetStackReturns ==
    /\ pc = "idle" /\ pc' = "idle"
    /\ op' = "get_stack"
    /\ result'.kind = "return"
    /\ UNCHANGED <<osVars, gcVars, awsVars>>

\* C16 as stated: get_stack returns empty outputs exactly when the stack
\* does not exist.
C16_Original ==
    [][GetStackReturns => (result'.outputs = EmptyDict <=> ~StackExists)]_vars

\* C16: get_stack of a stack that does not exist returns empty outputs;
\* outputs that are not empty are those of a stack that exists.  (A stack
\* that exists may have empty outputs too.)
C16_AbsentHasNoOutputs ==
    [][GetStackReturns => (~StackExists => result'.outputs = EmptyDict)]_vars

\* get_stack has returned DELETE_COMPLETE and empty outputs for a deployment
\* that Deployment Manager does not know.
C16_Witness ==
    /\ Ended("get_stack")
    /\ provider = "gcloud"
    /\ ~deployment.exists
    /\ calls = <<"deployments.get!404">>
    /\ result = ReturnStack(DELETE_COMPLETE, EmptyDict)

\* C17: a get_stack of the AWS driver that returns reports the state of an
\* instance of the key name that carries no 'deleted' tag, and reports
\* DELETE_COMPLETE when there is no such instance and only then.
C17_ReadsLiveInstance ==
    [][(GetStackReturns /\ provider = "aws") =>
          LET live == LiveInstances(ec2_instances)
          IN IF live = {}
             THEN result'.status = DELETE_COMPLETE
             ELSE /\ result'.status # DELETE_COMPLETE
                  /\ \E i \in live :
                        Aws_get_deployment_status(ec2_instances[i].code)
                            = ReturnStatus(result'.status)]_vars

\* Key material of the stack is held by the backend: the Nova key pair, the
\* EC2 key pair or the SSM parameter.
KeyMaterial == nova_keypair \/ ec2_key_pair \/ ssm_parameter

\* C18: once a create_stack that began with no stack has raised, or a
\* delete_stack has returned DELETE_COMPLETE, and no stack exists, the
\* backend holds no key material.
C18_NoKeyWithoutStack ==
    (/\ \/ Ended("create_stack") /\ began.absent /\ result.kind = "raise"
        \/ Ended("delete_stack") /\ result = ReturnStatus(DELETE_COMPLETE)
     /\ ~StackExists)
    => ~KeyMaterial

\* C19 as stated: a dict configuration whose type is absent, empty or
\* 'openstack' gives the OpenStack driver, 'gcloud' and 'aws' give theirs,
\* any other type gives None, and so does a configuration that is no dict.
C19_Original ==
    provider = IF ~config.dict THEN None
               ELSE IF config.type \in {PyNone, PyStr(""), PyStr("openstack")}
               THEN "openstack"
               ELSE IF config.type = PyStr("gcloud") THEN "gcloud"
               ELSE IF config.type = PyStr("aws") THEN "aws"
               ELSE None

\* C19: Provider.init gives a driver only for a configuration that is a dict
\* with at least one entry: the OpenStack driver when its type is
\* 'openstack' or is absent or any other falsy value, the GCloud driver for
\* 'gcloud', the AWS driver for 'aws', and None for any other type.  A
\* configuration that is missing, is no dict or is the empty dict gives None.
C19_DriverByType ==
    provider = IF ~config.dict \/ ~config.truthy THEN None
               ELSE IF config.type = PyStr("openstack") \/ ~Truthy(config.type)
               THEN "openstack"
               ELSE IF config.type = PyStr("gcloud") THEN "gcloud"
               ELSE IF config.type = PyStr("aws") THEN "aws"
               ELSE None

\* A configuration with entries but without a type has given the OpenStack
\* driver.
C19_Witness == config = DictConfig(PyNone) /\ provider = "openstack"

\* C20: after set_capacity(c) the capacity is an integer: -1 when c is None
\* or 'None', int(c) when int accepts c, 0 otherwise; and set_capacity has
\* not raised.
C20_CapacityInteger ==
    Ended("set_capacity") =>
        /\ result.kind = "return"
        /\ capacity = IF capacity_arg \in {PyNone, PyStr("None")} THEN PyInt(-1)
                      ELSE IF IntOf(capacity_arg).kind = "return"
                      THEN PyInt(IntOf(capacity_arg).v)
                      ELSE PyInt(0)

\* The entries of the call log for a call of the given name, whatever its
\* answer.
CallsOf(name) ==
    {i \in DOMAIN calls :
        /\ Len(calls[i]) >= Len(name)
        /\ SubSeq(calls[i], 1, Len(name)) = name
        /\ Len(calls[i]) > Len(name) => SubSeq(calls[i], Len(name) + 1, Len(name) + 1) = "!"}

\* The order of the calls of OpenStack's delete_stack, and where it stands
\* after them.
C21_CallOrder ==
    (provider = "openstack" /\ op = "delete_stack") =>
        /\ CallsOf("keypairs.delete") = {1}
        /\ CallsOf("stacks.delete") \subseteq {2}
        /\ CallsOf("stacks.get") = 3..Len(calls)
        /\ calls[1] \in {"keypairs.delete", "keypairs.delete!NotFound"}
              => \/ pc = "os_delete_submit" /\ Len(calls) = 1
                 \/ CallsOf("stacks.delete") = {2}
        /\ pc \in {"os_delete_sleep", "os_delete_get"}
              => /\ wait /\ calls[2] = "stacks.delete"
                 /\ status # "DELETE_COMPLETE" /\ ~Contains("FAILED", status)
        /\ (pc = "idle" /\ Len(calls) >= 2 /\ calls[2] = "stacks.delete")
              => IF wait
                 THEN /\ Len(calls) >= 3
                      /\ result \in {ReturnStatus("DELETE_COMPLETE"),
                                     ProviderException("HTTPException"),
                                     ProviderException("Failure deleting OpenStack Heat stack.")}
                      /\ calls[Len(calls)] = "stacks.get!HTTPNotFound"
                            => result = ReturnStatus("DELETE_COMPLETE")
                 ELSE Len(calls) = 2

\* A fetch of the delete loop that Heat answers with the stack: the loop
\* goes on unless the status is DELETE_COMPLETE, with which delete_stack
\* returns, or contains FAILED, with which it raises.
C21_Fetch ==
    (/\ provider = "openstack"
     /\ pc = "os_delete_get"
     /\ calls' = Append(calls, "stacks.get"))
    => LET st == heat_stack.stack_status
       IN CASE st = "DELETE_COMPLETE" -> pc' = "idle" /\ result' = ReturnStatus(st)
            [] Contains("FAILED", st) -> pc' = "idle" /\ result'.kind = "raise"
            [] OTHER -> pc' = "os_delete_sleep" /\ status' = st

\* C21: OpenStack delete_stack attempts the deletion of the Nova key pair
\* first, and then submits the deletion of the Heat stack, once; a key pair
\* that is not found does not end the operation, and the deletion of the
\* stack is still submitted.  With wait it then polls until the status is
\* DELETE_COMPLETE, for which a fetch answered with not-found counts, or
\* contains FAILED.
C21_DeleteStack == []C21_CallOrder /\ [][C21_Fetch]_vars

\* delete_stack found no key pair, submitted the deletion, and polled until
\* the stack was gone.
C21_Witness ==
    /\ Ended("delete_stack")
    /\ provider = "openstack"
    /\ calls = <<"keypairs.delete!NotFound", "stacks.delete", "stacks.get",
                 "stacks.get!HTTPNotFound">>
    /\ result = ReturnStatus("DELETE_COMPLETE")

\* The last entry of the call log after the step
LastCall == calls'[Len(calls')]

\* A step of the delete loop of Google Cloud's delete_stack.  A poll ends
\* the operation or is followed by a sleep, by what operations().get
\* answers; a sleep is followed by the next poll.
C22_Step ==
    /\ (provider = "gcloud" /\ pc = "gc_delete_poll" /\ pc' # pc) =>
          /\ calls' # <<>> /\ Len(calls') = Len(calls) + 1
          /\ sleeps' = sleeps
          /\ CASE LastCall = "operations.get!404" ->
                     pc' = "idle" /\ result' = ReturnStatus("DELETE_COMPLETE")
               [] LastCall = "operations.get!GcloudApiError" ->
                     pc' = "idle" /\ result' = ProviderException("GcloudApiError")
               [] LastCall = "operations.get" /\ operation.status = "DONE"
                                             /\ operation.error = "none" ->
                     pc' = "idle" /\ result' = ReturnStatus("DELETE_COMPLETE")
               [] LastCall = "operations.get" /\ operation.status = "DONE"
                                             /\ operation.error = "message" ->
                     pc' = "idle" /\ result' = ProviderException("errors[0].message")
               [] LastCall = "operations.get" /\ operation.status = "DONE"
                                             /\ operation.error = "empty" ->
                     pc' = "idle" /\ result' = ProviderException("Error in operation.")
               [] LastCall = "operations.get" /\ operation.status # "DONE" ->
                     pc' = "gc_delete_sleep" /\ result'.kind = "none"
               [] OTHER -> FALSE
    /\ (provider = "gcloud" /\ pc = "gc_delete_sleep" /\ pc' # pc) =>
          /\ pc' = "gc_delete_poll"
          /\ sleeps' = sleeps + 1
          /\ calls' = calls

\* C22: Google Cloud's delete_stack with wait polls the delete operation.  A
\* 404 on any poll ends the wait with DELETE_COMPLETE and no exception; the
\* status DONE without an error gives DELETE_COMPLETE; DONE with an error
\* raises ProviderException with the first error's message (with a generic
\* message when the error lists none); any other status sleeps and polls
\* again.  So a waited delete_stack that returns has returned
\* DELETE_COMPLETE.
C22_DeletePoll ==
    /\ [][C22_Step]_vars
    /\ []((Ended("delete_stack") /\ provider = "gcloud" /\ wait
             /\ result.kind = "return")
           => (/\ result = ReturnStatus("DELETE_COMPLETE")
               /\ calls[Len(calls)] \in {"operations.get", "operations.get!404"}
               /\ sleeps = fetches - 1))

\* delete_stack has polled an operation that was not done, has slept, and
\* has ended on a poll answered with 404.
C22_Witness ==
    /\ Ended("delete_stack")
    /\ provider = "gcloud"
    /\ calls = <<"deployments.delete", "operations.get", "operations.get!404">>
    /\ sleeps = 1
    /\ result = ReturnStatus("DELETE_COMPLETE")

\* A step of the Google Cloud driver in suspend_stack or resume_stack
GcStep(o) == provider = "gcloud" /\ op' = o /\ drvVars' # drvVars

\* The servers whose status is st
InStatus(srv, st) == {i \in DOMAIN srv : srv[i] = st}

\* The step in which suspend_stack or resume_stack enumerates the servers
\* and sends its call to them: only servers in status from are sent the call
\* and move to status to, the others are left alone; a server whose status
\* is outside ok makes the operation raise ProviderException; with neither
\* such a server nor a failing call every server in status from is sent the
\* call.
SweepsOnly(o, from, to, ok, call) ==
    (GcStep(o) /\ pc = "idle" /\ calls'[1] = "resources.list") =>
        LET sent == {i \in DOMAIN servers : servers'[i] # servers[i]}
            calling == {i \in DOMAIN calls' : calls'[i] = call}
            failing == {i \in DOMAIN calls' : calls'[i] = call \o "!GcloudApiError"}
        IN /\ DOMAIN servers' = DOMAIN servers
           /\ sent \subseteq InStatus(servers, from)
           /\ \A i \in sent : servers'[i] = to
           /\ Cardinality(sent) = Cardinality(calling)
           /\ Len(calls') = 1 + Cardinality(calling) + Cardinality(failing)
           /\ (\E i \in DOMAIN servers : servers[i] \notin ok)
                 => (pc' = "idle" /\ result'.kind = "raise"
                                  /\ result'.exc = "ProviderException")
           /\ ((\A i \in DOMAIN servers : servers[i] \in ok) /\ failing = {})
                 => (sent = InStatus(servers, from) /\ result'.kind # "raise")

\* The steps of Google Cloud's suspend_stack and resume_stack.
C23_Step ==
    /\ SweepsOnly("suspend_stack", "RUNNING", "STOPPING",
                  {"RUNNING", "STOPPING", "TERMINATED"}, "instances.stop")
    /\ SweepsOnly("resume_stack", "TERMINATED", "PROVISIONING",
                  {"TERMINATED", "RUNNING", "STAGING"}, "instances.start")
    /\ (GcStep("suspend_stack") /\ wait' /\ pc' = "idle" /\ result'.kind = "return")
          => /\ pc = "gc_suspend_poll"
             /\ LastCall = "resources.list"
             /\ \A i \in DOMAIN servers : servers[i] = "TERMINATED"
             /\ result' = ReturnStatus("SUSPEND_COMPLETE")
    /\ (GcStep("resume_stack") /\ pc' = "idle" /\ result'.kind = "return")
          => pc = "gc_resume_get_stack"
    /\ (GcStep("resume_stack") /\ pc' = "gc_resume_get_stack")
          => /\ pc = "gc_resume_poll"
             /\ LastCall = "resources.list"
             /\ \A i \in DOMAIN servers : servers[i] = "RUNNING"

\* C23: Google Cloud's suspend_stack sends stop only to the servers it
\* enumerated as RUNNING and skips those STOPPING or TERMINATED;
\* resume_stack sends start only to the servers TERMINATED and skips those
\* RUNNING or STAGING; a server in any other status makes the operation
\* raise ProviderException.  suspend_stack with wait returns
\* SUSPEND_COMPLETE, and only on a poll that lists every server as
\* TERMINATED; resume_stack returns only after a poll that lists every
\* server as RUNNING.
C23_SuspendResume == [][C23_Step]_vars

\* suspend_stack found one server TERMINATED and one RUNNING, stopped the
\* latter only, and returned once both were TERMINATED.
C23_Witness ==
    /\ Ended("suspend_stack")
    /\ provider = "gcloud"
    /\ Len(servers) = 2
    /\ calls = <<"resources.list", "instances.stop", "resources.list">>
    /\ result = ReturnStatus("SUSPEND_COMPLETE")

\* A step of Google Cloud's create_stack after the insert.  A poll of the
\* operation is followed by a sleep and the next poll until the status is
\* DONE; DONE with an error raises; DONE without one is followed by
\* get_stack, whose outcome is that of create_stack.
C24_Step ==
    /\ (provider = "gcloud" /\ pc = "gc_create_poll" /\ pc' # pc) =>
          /\ Len(calls') = Len(calls) + 1
          /\ sleeps' = sleeps
          /\ CASE LastCall \in {"operations.get!404", "operations.get!GcloudApiError"} ->
                     pc' = "idle" /\ result'.kind = "raise"
                                  /\ result'.exc = "ProviderException"
               [] LastCall = "operations.get" /\ operation.status # "DONE" ->
                     pc' = "gc_create_sleep"
               [] LastCall = "operations.get" /\ operation.status = "DONE"
                                             /\ operation.error = "message" ->
                     pc' = "idle" /\ result' = ProviderException("errors[0].message")
               [] LastCall = "operations.get" /\ operation.status = "DONE"
                                             /\ operation.error = "empty" ->
                     pc' = "idle" /\ result' = ProviderException("Error in operation.")
               [] LastCall = "operations.get" /\ operation.status = "DONE"
                                             /\ operation.error = "none" ->
                     pc' = "gc_create_get_stack"
               [] OTHER -> FALSE
    /\ (provider = "gcloud" /\ pc = "gc_create_sleep" /\ pc' # pc) =>
          /\ pc' = "gc_create_poll"
          /\ sleeps' = sleeps + 1
          /\ calls' = calls
    /\ (provider = "gcloud" /\ pc = "gc_create_get_stack" /\ pc' # pc) =>
          /\ pc' = "idle"
          /\ sleeps' = sleeps
          /\ \E d \in {"ok", "404", "GcloudApiError"}, s, m \in {"ok", "GcloudApiError"} :
                /\ calls' = calls \o GcloudGetStackCalls(d, s, m)
                /\ result' = GcloudGetStackResult(d, s, m)

\* The call log of Google Cloud's create_stack: the insert, the polls of the
\* operation, and then, if at all, the calls of one get_stack, which follow
\* a poll that was answered.
C24_Calls ==
    (provider = "gcloud" /\ op = "create_stack") =>
        /\ CallsOf("deployments.insert") \subseteq {1}
        /\ CallsOf("operations.get") = 2..(1 + Cardinality(CallsOf("operations.get")))
        /\ Cardinality(CallsOf("deployments.get")) <= 1
        /\ \A i \in CallsOf("deployments.get") :
              /\ pc = "idle"
              /\ calls[i - 1] = "operations.get"
              /\ CallsOf("operations.get") = 2..(i - 1)
        /\ (pc = "idle" /\ result.kind = "raise" /\ result.exc = "ProviderException"
               /\ result.msg \in {"errors[0].message", "Error in operation."})
              => CallsOf("deployments.get") = {}
        /\ (pc = "idle" /\ result.kind = "return")
              => CallsOf("deployments.get") # {}
        /\ pc \in {"gc_create_poll", "gc_create_sleep", "gc_create_get_stack"}
              => sleeps = IF pc = "gc_create_poll" THEN fetches ELSE fetches - 1

\* C24: Google Cloud's create_stack polls the insert operation, sleeping
\* between the polls, until its status is DONE.  If the operation then
\* carries an error it raises ProviderException with the first error's
\* message, or with a generic message when the error lists none, and does
\* not call get_stack; otherwise it ends with what a get_stack made after
\* that poll returns or raises.
C24_CreatePoll == []C24_Calls /\ [][C24_Step]_vars

\* create_stack polled an operation that was not done, slept, polled it
\* again, and went on to get_stack.
C24_Witness ==
    /\ Ended("create_stack")
    /\ provider = "gcloud"
    /\ sleeps = 1
    /\ Len(calls) >= 4
    /\ SubSeq(calls, 1, 4) = <<"deployments.insert", "operations.get",
                               "operations.get", "deployments.get">>

\* The calls of the AWS driver that only read the backend
AwsReadCalls ==
    {"instances.filter", "instances.filter!ClientError", "get_parameter",
     "get_parameter!ClientError", "get_parameter!ParameterNotFound"}

\* A step in which the AWS driver runs suspend_stack or resume_stack: the
\* operation ends in it, every backend call it makes is a read, and the
\* instances, the parameter and the key pair are what they were.
\* suspend_stack returns SUSPEND_COMPLETE without any call; resume_stack
\* ends as a get_stack in that state does.
C25_Step ==
    (/\ provider = "aws"
     /\ op' \in {"suspend_stack", "resume_stack"}
     /\ drvVars' # drvVars)
    => /\ pc = "idle" /\ pc' = "idle"
       /\ UNCHANGED <<ec2_instances, ssm_parameter, ec2_key_pair>>
       /\ \A i \in DOMAIN calls' : calls'[i] \in AwsReadCalls
       /\ sleeps' = 0
       /\ IF op' = "suspend_stack"
          THEN calls' = <<>> /\ result' = ReturnStatus("SUSPEND_COMPLETE")
          ELSE \E d \in {"ok", "ClientError"},
                  p \in {"ok", "ClientError", "ParameterNotFound"} :
                   /\ result' = AwsGetStackResult(ec2_instances, d, p)
                   /\ calls' = AwsGetStackCalls(ec2_instances, d, p)

\* C25: AWS suspend_stack and resume_stack change nothing in the backend,
\* whatever state it is in, an absent stack included: suspend_stack returns
\* SUSPEND_COMPLETE and resume_stack gives what get_stack gives, and the
\* instances are after the call what they were before it.
C25_AwsStubs == [][C25_Step]_vars

\* suspend_stack has returned SUSPEND_COMPLETE for a name without instance.
C25_Witness ==
    /\ Ended("suspend_stack")
    /\ provider = "aws"
    /\ began.absent
    /\ ec2_instances = <<>>
    /\ result = ReturnStatus("SUSPEND_COMPLETE")

\* The call logs of a suspend_stack or delete_stack that does not wait and
\* returns: the request to the backend is the last entry, and nothing
\* before it reads a stack's or an operation's status.
Unwaited(log) ==
    CASE provider = "openstack" /\ op = "suspend_stack" -> log = <<"actions.suspend">>
      [] provider = "openstack" /\ op = "delete_stack" ->
             log \in {<<"keypairs.delete", "stacks.delete">>,
                      <<"keypairs.delete!NotFound", "stacks.delete">>}
      [] provider = "gcloud" /\ op = "delete_stack" -> log = <<"deployments.delete">>
      [] provider = "gcloud" /\ op = "suspend_stack" ->
             /\ log # <<>> /\ log[1] = "resources.list"
             /\ \A i \in 2..Len(log) : log[i] = "instances.stop"
      [] OTHER -> FALSE

\* C26: with wait=False, suspend_stack of the OpenStack and Google Cloud
\* drivers returns SUSPEND_IN_PROGRESS and delete_stack returns
\* DELETE_IN_PROGRESS right after the request to the backend: the operation
\* has not slept, has not fetched the status of the stack or of the
\* operation, and never stands in a poll loop.
C26_NoWait ==
    (/\ provider \in {"openstack", "gcloud"}
     /\ op \in {"suspend_stack", "delete_stack"}
     /\ ~wait)
    => /\ pc \in {"idle", "os_delete_submit"}
       /\ sleeps = 0 /\ slept = 0 /\ fetches = 0
       /\ (pc = "idle" /\ result.kind = "return")
             => /\ result = ReturnStatus(IF op = "suspend_stack"
                                         THEN "SUSPEND_IN_PROGRESS"
                                         ELSE "DELETE_IN_PROGRESS")
                /\ Unwaited(calls)
       /\ (pc = "idle" /\ Unwaited(calls))
             => \/ result.kind = "return"
                \/ /\ provider = "gcloud" /\ op = "suspend_stack"
                   /\ result = ProviderException("Cannot stop machine with status")

\* suspend_stack of the Google Cloud driver, told not to wait, has stopped a
\* server and returned.
C26_Witness ==
    /\ Ended("suspend_stack")
    /\ provider = "gcloud"
    /\ ~wait
    /\ calls = <<"resources.list", "instances.stop">>
    /\ result = ReturnStatus("SUSPEND_IN_PROGRESS")

\* C27: AWS get_stacks returns an entry for the SSM parameter that carries
\* the tags Purpose=Hastexo and Stack, which is the parameter create_stack
\* puts: while the parameter exists, the list get_stacks returns holds the
\* stack's name, with the status of get_stack.
C27_AwsListsStacks ==
    (Ended("get_stacks") /\ provider = "aws" /\ result.kind = "return"
        /\ ssm_parameter)
    => /\ Len(result.stacks) = 1
       /\ result.stacks[1].name = "name"
       /\ result.stacks[1].status \in AwsStatuses


\* The first thread is inside the polling loop of suspend_stack(wait=True).
SuspendPolling == pc \in {"gc_suspend_sleep", "gc_suspend_poll"}

\* The second thread's resume_stack has ended with every server running,
\* while the first thread still polls for every server to be terminated.
C28_Stuck ==
    /\ SuspendPolling
    /\ thread2 \in {"return", "raise"}
    /\ servers # <<>>
    /\ \A i \in DOMAIN servers : servers[i] = "RUNNING"

\* Nothing keeps a resume_stack of a second thread out while the suspend
\* polls, nor holds its own poll back.
C28_NoLock ==
    /\ (SuspendPolling /\ thread2 = "idle") => ENABLED T2ResumeStack
    /\ (SuspendPolling /\ thread2 = "gc_resume_poll") => ENABLED T2ResumePoll

\* A resume_stack that enters its loop has sent start to every server that
\* was terminated, those the polling suspend had stopped included; and once
\* it has ended with every server running, the suspend never sees them all
\* terminated: it polls on, or its listing fails.
C28_Step ==
    /\ (thread2 = "idle" /\ thread2' = "gc_resume_poll")
        => \A i \in DOMAIN servers :
               servers[i] = "TERMINATED" => servers'[i] = "PROVISIONING"
    /\ C28_Stuck => \/ C28_Stuck'
                    \/ /\ pc' = "idle"
                       /\ result' = ProviderException("GcloudApiError")

\* C28: the drivers hold no lock on a name: while suspend_stack(wait=True)
\* polls, a resume_stack of another thread on the same name can begin and
\* poll too, it starts the servers the suspend has stopped, and after that the
\* suspend's poll need never see every server TERMINATED.
C28_Interleaving == []C28_NoLock /\ [][C28_Step]_vars

\* The suspend has stopped a server, the resume has started it again and has
\* ended, and the suspend is still polling.
C28_Witness ==
    /\ C28_Stuck
    /\ wait
    /\ Len(calls) >= 2
    /\ calls[2] = "instances.stop"
    /\ sleeps >= 1


\* C29: an OpenStack operation that waited and returned has returned a target
\* status: delete_stack(wait=True) DELETE_COMPLETE, suspend_stack(wait=True)
\* SUSPEND_COMPLETE or DELETE_COMPLETE, resume_stack RESUME_COMPLETE; never a
\* status that contains FAILED.
C29_TargetStatus ==
    (/\ provider = "openstack"
     /\ pc = "idle"
     /\ result.kind = "return"
     /\ \/ op \in {"delete_stack", "suspend_stack"} /\ wait
        \/ op = "resume_stack")
    => /\ ~Contains(FAILED, result.status)
       /\ op = "delete_stack" => result.status = DELETE_COMPLETE
       /\ op = "suspend_stack" => result.status \in {SUSPEND_COMPLETE, DELETE_COMPLETE}
       /\ op = "resume_stack" => result.status = RESUME_COMPLETE

\* A waited suspend_stack has returned DELETE_COMPLETE: the stack vanished
\* while the driver polled, after at least one status was fetched.
C29_Witness ==
    /\ Ended("suspend_stack")
    /\ provider = "openstack"
    /\ wait
    /\ fetches >= 2
    /\ result = ReturnStatus(DELETE_COMPLETE)


\* C30: an OpenStack create_stack that returned has returned a status that
\* contains neither IN_PROGRESS nor FAILED, and its result holds a private_key
\* exactly when key_type was non-empty, which is exactly when this call
\* registered a key pair (keypairs.create is in its call log).
C30_CreateResult ==
    (Ended("create_stack") /\ provider = "openstack" /\ result.kind = "return")
    => /\ ~Contains(IN_PROGRESS, result.status)
       /\ ~Contains(FAILED, result.status)
       /\ "private_key" \in DOMAIN result <=> key_type # ""
       /\ CallsOf("keypairs.create") # {} <=> key_type # ""

\* create_stack with a key type has returned the private key after it polled
\* through a creation in progress.
C30_Witness ==
    /\ Ended("create_stack")
    /\ provider = "openstack"
    /\ key_type = "ed25519"
    /\ fetches >= 2
    /\ result.kind = "return"
    /\ result.status = CREATE_COMPLETE
    /\ result.private_key = "private_key"


\* What the backend holds is, for the operation that is running, a status
\* that ends its poll loop: for the OpenStack loops a stack that is not found,
\* that failed, or that is in the target status (create: any status that is
\* not IN_PROGRESS); for GCloud create and delete a DONE operation, for
\* suspend every server TERMINATED, for resume every server RUNNING.
ExitReported ==
    CASE pc = "idle" -> TRUE
      [] provider = "openstack" ->
           \/ heat_stack = NoStack
           \/ LET st == heat_stack.stack_status
              IN CASE op = "create_stack" -> ~Contains("IN_PROGRESS", st)
                   [] op = "resume_stack" ->
                        Contains("FAILED", st) \/ st = "RESUME_COMPLETE"
                   [] op = "suspend_stack" ->
                        \/ Contains("FAILED", st)
                        \/ st \in {"SUSPEND_COMPLETE", "DELETE_COMPLETE"}
                   [] op = "delete_stack" ->
                        Contains("FAILED", st) \/ st = "DELETE_COMPLETE"
                   [] OTHER -> TRUE
      [] provider = "gcloud" ->
           CASE op \in {"create_stack", "delete_stack"} -> operation.status = "DONE"
             [] op = "suspend_stack" ->
                  \A i \in DOMAIN servers : servers[i] = "TERMINATED"
             [] op = "resume_stack" ->
                  \A i \in DOMAIN servers : servers[i] = "RUNNING"
             [] OTHER -> TRUE
      [] OTHER -> TRUE

\* The positions at which a loop sleeps, and those at which it polls
SleepPcs ==
    {"os_create_sleep0", "os_create_sleep", "os_resume_sleep", "os_suspend_sleep",
     "os_delete_sleep", "gc_create_sleep", "gc_delete_sleep", "gc_suspend_sleep",
     "gc_resume_sleep"}

PollPcs ==
    OsFetchPcs \cup {"gc_create_poll", "gc_delete_poll", "gc_suspend_poll",
                     "gc_resume_poll"}

\* The sleeps the model counts are used up.
Exhausted == pc \in SleepPcs /\ sleeps = MaxSleeps

\* An operation that is running while the backend holds, from now on, a
\* status that ends its loop, comes to its end.
C31_Terminates == []((pc # "idle" /\ ~Exhausted /\ []ExitReported) => <>(pc = "idle"))

\* A poll that is answered while the backend holds no such status does not
\* end the operation: it stays in its loop, unless the call of the poll itself
\* failed.
C31_Step ==
    (pc \in PollPcs /\ pc' # pc /\ ~ExitReported)
    => \/ pc' \in SleepPcs
       \/ pc' = "idle" /\ IsFailed(LastCall)

\* C31: a poll loop of the OpenStack and GCloud drivers ends exactly when the
\* backend reports one of its exit statuses: if the backend comes to report
\* one and keeps to it, create, suspend, resume and delete return or raise;
\* while it reports any other status, every poll leaves the operation in its
\* loop, so that a backend settled there is polled for ever.
C31_PollLoops == C31_Terminates /\ [][C31_Step]_vars

\* resume_stack has polled a stack that stays SUSPEND_COMPLETE as often as
\* the model counts, and is about to sleep again.
C31_Witness ==
    /\ provider = "openstack"
    /\ pc = "os_resume_sleep"
    /\ sleeps = MaxSleeps
    /\ fetches = MaxSleeps
    /\ status = SUSPEND_COMPLETE
    /\ heat_stack # NoStack
    /\ heat_stack.stack_status = SUSPEND_COMPLETE


\* A waited suspend_stack or delete_stack that raises its failure exception
\* has fetched the failed status of the action it requested.
C32_Step ==
    /\ (/\ pc = "os_suspend_get"
        /\ result' = ProviderException("Failure suspending OpenStack Heat stack."))
       => (heat_stack # NoStack /\ heat_stack.stack_status = HeatStatus("SUSPEND", FAILED))
    /\ (/\ pc = "os_delete_get"
        /\ result' = ProviderException("Failure deleting OpenStack Heat stack."))
       => (heat_stack # NoStack /\ heat_stack.stack_status = HeatStatus("DELETE", FAILED))

\* C32: OpenStack suspend_stack and delete_stack with wait raise their
\* failure exception only when the action they requested failed; the failed
\* status of an earlier action, still reported before the new action takes
\* effect, does not make them raise.
C32_OwnFailureOnly == [][C32_Step]_vars


\* No result a GCloud operation returned carries RESUME_COMPLETE.
C33_NoResumeComplete ==
    (provider = "gcloud" /\ pc = "idle" /\ result.kind = "return")
    => /\ "status" \in DOMAIN result => result.status # RESUME_COMPLETE
       /\ "stacks" \in DOMAIN result
            => \A i \in DOMAIN result.stacks : result.stacks[i].status # RESUME_COMPLETE

\* resume_stack ends as a get_stack made at that moment, after its last poll,
\* ends; for a deployment whose insert is done and whose servers are all
\* RUNNING, what it returns is CREATE_COMPLETE.
C33_Step ==
    (pc = "gc_resume_get_stack" /\ pc' = "idle")
    => /\ fetches >= 1
       /\ \E d \in DeploymentResponses, s \in ReadResponses, m \in ReadResponses :
              result' = GcloudGetStackResult(d, s, m)
       /\ (/\ result'.kind = "return"
           /\ deployment.exists
           /\ operation.operationType = "insert"
           /\ operation.status = "DONE"
           /\ \A i \in DOMAIN servers : servers[i] = "RUNNING")
          => result'.status = CREATE_COMPLETE

\* C33: GCloud resume_stack returns the status of a get_stack made after its
\* last poll, never a status of its own: with every server RUNNING that is
\* CREATE_COMPLETE, and no GCloud operation ever returns RESUME_COMPLETE.
C33_ResumeStatus == []C33_NoResumeComplete /\ [][C33_Step]_vars

\* resume_stack has started a terminated server, polled until it ran, and
\* returned CREATE_COMPLETE.
C33_Witness ==
    /\ Ended("resume_stack")
    /\ provider = "gcloud"
    /\ Len(calls) >= 2
    /\ calls[2] = "instances.start"
    /\ sleeps >= 1
    /\ result.kind = "return"
    /\ result.status = CREATE_COMPLETE

====
